---- MODULE Spec2Model ----
(***************************************************************************)
(* Model of the payroll-variable pipeline of Cloudpayroll:                 *)
(*   excel_a_json.py   clean_and_standardize, apply_equivalences (text     *)
(*                     normalizer), parse_schedule_string (parser),        *)
(*                     calcular_resumen_horario (weekly summarizer)        *)
(*   json_a_excel.py   calcular_variables and its rules (rule engine),     *)
(*                     procesar_archivo_json (record loop)                 *)
(* and of the row loop of procesar_excel_a_json that feeds it.             *)
(*                                                                         *)
(* Conventions.                                                            *)
(*  - A Python str is a sequence of one-character strings; None, numbers   *)
(*    and strings found in a JSON field are the tagged values None,        *)
(*    Num(n, d) and Str(s).  Num(n, d) is the decimal n * 10^-d, so        *)
(*    Num(4000, 2) is 40.00 and Num(1, 0) is the int 1.                    *)
(*  - A time of day "HH:MM" is the pair <<HH, MM>>.                        *)
(*  - Durations are kept in minutes until the code rounds them; the times  *)
(*    of the schedules explored lie on the quarter-hour grid, where every  *)
(*    float product and sum of the code is exact in binary64 and round()   *)
(*    is round-half-to-even on the exact value.                            *)
(***************************************************************************)
EXTENDS Integers, Sequences, FiniteSets, TLC

VARIABLES
    legajo,     \* the employee record being processed (one element of data['legajos'])
    variables,  \* the list of (code, value) pairs built by calcular_variables
    pc,         \* position in the pipeline: "fila" -> "json" -> "calculado"; in
                \* the parser "texto" -> "bloques", in the normalizer "horario" ->
                \* "normalizado", in the record loop the way the last iteration ended
    lote,       \* the records of data['legajos'] that procesar_archivo_json has still to visit
    stats,      \* the statistics of procesar_archivo_json
    resultados, \* the (id_legajo, code, value) tuples accumulated by procesar_archivo_json
    df,         \* the rows of the workbook given to procesar_excel_a_json
    index,      \* the number of rows of df that procesar_excel_a_json has visited
    stats_filas \* the statistics of procesar_excel_a_json

vars == <<legajo, variables, pc, lote, stats, resultados, df, index, stats_filas>>

(***************************************************************************)
(* JSON values                                                             *)
(***************************************************************************)
None == [tipo |-> "None", num |-> 0, dec |-> 0, txt |-> << >>]
Num(n, d) == [tipo |-> "num", num |-> n, dec |-> d, txt |-> << >>]
Str(s) == [tipo |-> "str", num |-> 0, dec |-> 0, txt |-> s]

\* Python truthiness of a JSON scalar: None, "" and 0 are falsy.
truthy(v) ==
    CASE v.tipo = "None" -> FALSE
      [] v.tipo = "str" -> v.txt # << >>
      [] OTHER -> v.num # 0

Range(s) == {s[i] : i \in DOMAIN s}

Min2(a, b) == IF a <= b THEN a ELSE b
Max2(a, b) == IF a >= b THEN a ELSE b
Abs(a) == IF a >= 0 THEN a ELSE -a

(***************************************************************************)
(* str operations                                                          *)
(***************************************************************************)
Mayusculas == <<"A","B","C","D","E","F","G","H","I","J","K","L","M",
                "N","O","P","Q","R","S","T","U","V","W","X","Y","Z",
                "Á","É","Í","Ó","Ú","Ñ","Ç">>
Minusculas == <<"a","b","c","d","e","f","g","h","i","j","k","l","m",
                "n","o","p","q","r","s","t","u","v","w","x","y","z",
                "á","é","í","ó","ú","ñ","ç">>
LetrasAZ == {Minusculas[i] : i \in 1..26}
Digitos == {"0","1","2","3","4","5","6","7","8","9"}
\* the characters matched by \s
Espacios == {" ", "\t", "\n"}

\* str.lower() on one character
lower1(c) ==
    IF \E i \in DOMAIN Mayusculas : Mayusculas[i] = c
    THEN Minusculas[CHOOSE i \in DOMAIN Mayusculas : Mayusculas[i] = c]
    ELSE c

lower(s) == [i \in DOMAIN s |-> lower1(s[i])]

\* Python "sub in s"
Contiene(s, sub) ==
    \E i \in 0..(Len(s) - Len(sub)) : SubSeq(s, i + 1, i + Len(sub)) = sub

startswith(s, pre) == Len(s) >= Len(pre) /\ SubSeq(s, 1, Len(pre)) = pre

\* re.sub(r'\s+', ' ', s).strip(): runs of whitespace become one space, none at the ends
RECURSIVE colapsar(_, _)
colapsar(s, acc) ==
    IF s = << >> THEN acc
    ELSE IF Head(s) \in Espacios
         THEN colapsar(Tail(s), IF acc = << >> \/ acc[Len(acc)] = " "
                                THEN acc ELSE Append(acc, " "))
         ELSE colapsar(Tail(s), Append(acc, Head(s)))

strip_final(s) ==
    IF s # << >> /\ s[Len(s)] = " " THEN SubSeq(s, 1, Len(s) - 1) ELSE s

colapsar_espacios(s) == strip_final(colapsar(s, << >>))

\* reemplazos_directos of normalizar_texto
reemplazo_directo(c) == IF c = "ñ" THEN "n" ELSE IF c = "ç" THEN "c" ELSE c

\* unicodedata.normalize('NFKD', ...) followed by the removal of combining marks
sin_diacritico(c) ==
    CASE c = "á" -> "a"
      [] c = "é" -> "e"
      [] c = "í" -> "i"
      [] c = "ó" -> "o"
      [] c = "ú" -> "u"
      [] OTHER -> c

\* re.sub(r'[^a-z0-9\s]', ' ', ...)
filtrar(c) == IF c \in LetrasAZ \cup Digitos \cup Espacios THEN c ELSE " "

normalizar_caracter(c) == filtrar(sin_diacritico(reemplazo_directo(lower1(c))))

\* normalizar_texto on a str
normalizar_str(s) == colapsar_espacios([i \in DOMAIN s |-> normalizar_caracter(s[i])])

\* normalizar_texto(texto): None gives "", a str is normalized
normalizar_texto(v) ==
    IF v.tipo = "str" THEN normalizar_str(v.txt) ELSE << >>

(***************************************************************************)
(* Rounding                                                                *)
(***************************************************************************)
\* round() of the exact rational num/den (den > 0) to an integer, ties to even:
\* what Python's round(x, 2) returns, in hundredths, for an exactly represented x.
redondear(num, den) ==
    LET q == num \div den
        r == num % den
    IN  IF 2 * r < den THEN q
        ELSE IF 2 * r > den THEN q + 1
        ELSE IF q % 2 = 0 THEN q ELSE q + 1

(***************************************************************************)
(* Schedule blocks, as parse_schedule_string builds them (block_data):     *)
(*   dias_semana   sorted sequence of day indices, 0 = Monday .. 7 = Holiday *)
(*   hora_inicio, hora_fin   <<HH, MM>>                                    *)
(*   periodicidad  [tipo, factor4] with factor = factor4 / 4               *)
(*   cruza_dia     start_time > end_time                                   *)
(*   claves        the keys the JSON object of the block holds             *)
(***************************************************************************)
ClavesBloque == {"id", "dias_semana", "hora_inicio", "hora_fin", "periodicidad",
                 "original_text_segment", "cruza_dia"}

hora_mayor(a, b) == a[1] > b[1] \/ (a[1] = b[1] /\ a[2] > b[2])

Bloque(dias, inicio, fin, tipo, factor4) ==
    [dias_semana |-> dias, hora_inicio |-> inicio, hora_fin |-> fin,
     periodicidad |-> [tipo |-> tipo, factor4 |-> factor4],
     cruza_dia |-> hora_mayor(inicio, fin), claves |-> ClavesBloque]

(***************************************************************************)
(* calcular_resumen_horario                                                *)
(***************************************************************************)
\* a window that opens at noon
HORA_INICIO_NOCTURNA_mediodia == <<12, 0>>

HORA_INICIO_NOCTURNA == <<22, 0>>
HORA_FIN_NOCTURNA == <<6, 0>>

\* minutes since midnight of a time of day
minutos(h) == h[1] * 60 + h[2]

\* bloque.get('cruza_dia', h_fin <= h_inicio)
cruza_dia_de(b) ==
    IF "cruza_dia" \in b.claves THEN b.cruza_dia
    ELSE minutos(b.hora_fin) <= minutos(b.hora_inicio)

\* duracion_total, in minutes
duracion_min(b) ==
    IF cruza_dia_de(b)
    THEN (24 * 60 - minutos(b.hora_inicio)) + minutos(b.hora_fin)
    ELSE minutos(b.hora_fin) - minutos(b.hora_inicio)

\* horas_noct, in minutes: the overlap of [inicio, fin (+1 day when cruza_dia)]
\* with [22:00 today, 06:00 tomorrow]
nocturnos_min(b) ==
    LET ini == minutos(b.hora_inicio)
        fin == minutos(b.hora_fin) + (IF cruza_dia_de(b) THEN 24 * 60 ELSE 0)
        overlap_start == Max2(ini, minutos(HORA_INICIO_NOCTURNA))
        overlap_end == Min2(fin, 24 * 60 + minutos(HORA_FIN_NOCTURNA))
    IN  IF overlap_start < overlap_end THEN overlap_end - overlap_start ELSE 0

\* The float duracion_total is the double nearest to the exact value, or the
\* double next to it: h_inicio.minute / 60 and h_fin.minute / 60 are rounded
\* before they are added.  DuracionesPorDefecto lists the pairs of times
\* explored whose float duration is below the exact value (23:50 to 00:20
\* gives 0.49999999999999994); for the other times explored it is equal.  The
\* float horas_noct, one division of whole seconds, is never on the wrong side.
DuracionesPorDefecto == {<< <<23, 50>>, <<0, 20>> >>}

duracion_por_defecto(b) == <<b.hora_inicio, b.hora_fin>> \in DuracionesPorDefecto

\* round(x, 2) in hundredths for the float x next to num/den: a float below
\* an exact tie rounds down
redondear_float(num, den, por_defecto) ==
    IF por_defecto /\ 2 * (num % den) = den THEN num \div den ELSE redondear(num, den)

\* faulty variant: the entry's horas_semanales forgets the factor
entrada_dia_sin_factor(b) ==
    [inicio |-> b.hora_inicio,
     fin |-> b.hora_fin,
     duracion_total |-> redondear(duracion_min(b) * 100, 60),
     horas_nocturnas |-> redondear(nocturnos_min(b) * 100, 60),
     periodicidad |-> b.periodicidad.tipo,
     horas_semanales |-> redondear(duracion_min(b) * 100, 60)]

\* the entry appended to bloques_por_dia[dia]; hours in hundredths
entrada_dia(b) ==
    [inicio |-> b.hora_inicio,
     fin |-> b.hora_fin,
     duracion_total |-> redondear(duracion_min(b) * 100, 60),
     horas_nocturnas |-> redondear(nocturnos_min(b) * 100, 60),
     periodicidad |-> b.periodicidad.tipo,
     horas_semanales |-> redondear_float(duracion_min(b) * b.periodicidad.factor4 * 100, 240,
                                         duracion_por_defecto(b))]

\* the accumulators before the loop; total and total_noct in 1/240 hour
\* (minutes times quarters of factor); total_por_defecto: the float total_horas
\* is below the exact total
acumulado_inicial ==
    [total_horas |-> 0, total_horas_nocturnas |-> 0, total_por_defecto |-> FALSE,
     dias_trabajo |-> {},
     tiene_nocturnidad |-> FALSE, bloques_por_dia |-> [d \in 0..7 |-> << >>]]

\* total_horas += duracion_total * cantidad_dias * factor: adding 0.0 keeps the
\* float, a term added to 0.0 is kept as it is, and in the schedules explored
\* the sum of two positive terms is the double of the exact sum
sumar_por_defecto(acc, termino, por_defecto) ==
    IF termino = 0 THEN acc.total_por_defecto
    ELSE IF acc.total_horas = 0 THEN por_defecto
    ELSE FALSE

\* one iteration of "for bloque in bloques": a block whose times are missing
\* raises before any effect; one whose periodicidad or dias_semana is missing
\* raises after tiene_nocturnidad was set; the except clause skips it
procesar_bloque(acc, b) ==
    IF ~({"hora_inicio", "hora_fin"} \subseteq b.claves) THEN acc
    ELSE LET noct == [acc EXCEPT !.tiene_nocturnidad = @ \/ nocturnos_min(b) > 0]
         IN  IF ~({"periodicidad", "dias_semana"} \subseteq b.claves) THEN noct
             ELSE LET dias == Range(b.dias_semana)
                      peso == Cardinality(dias) * b.periodicidad.factor4
                  IN  [noct EXCEPT
                         !.dias_trabajo = @ \cup dias,
                         !.bloques_por_dia =
                             [d \in 0..7 |-> IF d \in dias
                                             THEN Append(@[d], entrada_dia(b))
                                             ELSE @[d]],
                         !.total_horas = @ + duracion_min(b) * peso,
                         !.total_por_defecto =
                             sumar_por_defecto(acc, duracion_min(b) * peso,
                                               duracion_por_defecto(b)),
                         !.total_horas_nocturnas = @ + nocturnos_min(b) * peso]

RECURSIVE acumular_bloques(_, _)
acumular_bloques(acc, bloques) ==
    IF bloques = << >> THEN acc
    ELSE acumular_bloques(procesar_bloque(acc, Head(bloques)), Tail(bloques))

\* sum of a sequence of integers
RECURSIVE Suma(_)
Suma(s) == IF s = << >> THEN 0 ELSE Head(s) + Suma(Tail(s))

\* sorted(list(s)) for a set of integers
RECURSIVE sorted(_)
sorted(s) ==
    IF s = {} THEN << >>
    ELSE LET m == CHOOSE x \in s : \A y \in s : x <= y
         IN  <<m>> \o sorted(s \ {m})

\* the dict returned by calcular_resumen_horario(bloques); hours in hundredths
calcular_resumen_horario(bloques) ==
    LET acc == acumular_bloques(acumulado_inicial, bloques)
        con_bloques == {d \in 0..7 : acc.bloques_por_dia[d] # << >>}
        dias == acc.dias_trabajo \cap con_bloques
        noct_total == redondear(acc.total_horas_nocturnas * 100, 240)
    IN  [total_horas_semanales |->
             Num(redondear_float(acc.total_horas * 100, 240, acc.total_por_defecto), 2),
         total_horas_nocturnas |-> Num(noct_total, 2),
         dias_trabajo |-> sorted(acc.dias_trabajo),
         tiene_nocturnidad |-> acc.tiene_nocturnidad,
         detalle_nocturnidad |->
             [total_horas |-> noct_total,
              por_dia |-> [d \in dias |->
                  Suma([i \in DOMAIN acc.bloques_por_dia[d] |->
                           acc.bloques_por_dia[d][i].horas_nocturnas])]],
         tiene_fin_semana |-> acc.dias_trabajo \cap {5, 6} # {},
         bloques_por_dia |-> [d \in dias |-> acc.bloques_por_dia[d]]]

(***************************************************************************)
(* Numbers of the rule engine                                              *)
(*   A float is Num(c, 2), c hundredths, or NaN.  Every comparison with    *)
(*   NaN is false, as in Python.                                           *)
(***************************************************************************)
NaN == [tipo |-> "nan", num |-> 0, dec |-> 0, txt |-> << >>]

\* a key that the JSON object does not hold
Ausente == [tipo |-> "ausente", num |-> 0, dec |-> 0, txt |-> << >>]

\* dict.get(key, default)
\* stats of procesar_archivo_json before the first record; a key of the
\* defaultdict errores_por_tipo is present when its count is positive
stats_iniciales ==
    [total_legajos |-> 0, legajos_procesados |-> 0, legajos_con_error |-> 0,
     variables_calculadas |-> 0,
     errores_por_tipo |-> [estructura_invalida |-> 0, TypeError |-> 0]]

\* stats of procesar_excel_a_json before the first row of a workbook of n rows
stats_filas_iniciales(n) ==
    [total_filas |-> n, procesados_exitosamente |-> 0, errores_parsing |-> 0,
     filas_omitidas |-> 0, total_errores_validacion |-> 0]

get(v, default) == IF v.tipo = "ausente" THEN default ELSE v

es_None(v) == v.tipo = "None"

\* the value of a number in hundredths (ints have dec = 0, floats dec = 2)
centesimas(v) == IF v.dec = 0 THEN v.num * 100 ELSE v.num

\* comparisons of a float with c hundredths
menor(v, c) == v.tipo = "num" /\ centesimas(v) < c
mayor(v, c) == v.tipo = "num" /\ centesimas(v) > c
menor_igual(v, c) == v.tipo = "num" /\ centesimas(v) <= c
mayor_igual(v, c) == v.tipo = "num" /\ centesimas(v) >= c
igual(v, c) == v.tipo = "num" /\ centesimas(v) = c

\* str.strip() for the whitespace of Espacios
RECURSIVE lstrip(_)
lstrip(s) == IF s # << >> /\ Head(s) \in Espacios THEN lstrip(Tail(s)) ELSE s

RECURSIVE rstrip(_)
rstrip(s) ==
    IF s # << >> /\ s[Len(s)] \in Espacios THEN rstrip(SubSeq(s, 1, Len(s) - 1)) ELSE s

strip(s) == lstrip(rstrip(s))

\* the value of a string of decimal digits
RECURSIVE valor_digitos(_)
valor_digitos(s) ==
    IF s = << >> THEN 0
    ELSE valor_digitos(SubSeq(s, 1, Len(s) - 1)) * 10
         + (CHOOSE d \in 0..9 : ToString(d) = s[Len(s)])

solo_digitos(s) == s # << >> /\ \A i \in DOMAIN s : s[i] \in Digitos

\* float(x) succeeds: x is a number, or a str that reads as one.  Of the
\* strings float() accepts, the model reads unsigned integers and "nan".
float_valido(v) ==
    \/ v.tipo \in {"num", "nan"}
    \/ v.tipo = "str" /\ (solo_digitos(strip(v.txt)) \/ lower(strip(v.txt)) = <<"n","a","n">>)

\* float(x), for x with float_valido(x)
float(v) ==
    CASE v.tipo = "num" -> Num(centesimas(v), 2)
      [] v.tipo = "nan" -> NaN
      [] OTHER -> IF solo_digitos(strip(v.txt))
                  THEN Num(valor_digitos(strip(v.txt)) * 100, 2)
                  ELSE NaN

\* round(x * 4.33, 2) in hundredths, for x = c hundredths.  The exact product
\* is c * 433 / 100 hundredths; off a tie the float product rounds to the nearest
\* hundredth.  On a tie (c = 50 mod 100) the binary64 product of c/100 and the
\* double nearest 4.33 falls on either side: TiesArriba lists, for c up to
\* 168.50, the ties whose float product rounds up.
TiesArriba ==
    {50, 150, 350, 550, 750, 1050, 1150, 1450, 1650, 1750, 1850, 1950,
     2050, 2450, 2550, 2650, 2750, 2850, 3150, 3350, 3550, 3650, 3750, 3850,
     4050, 4250, 4450, 4550, 4750, 4950, 5150, 5250, 5350, 5450, 5650, 5850,
     6050, 6150, 6450, 6550, 6850, 6950, 7150, 7250, 7550, 7650, 7850, 7950,
     8250, 8350, 8550, 8650, 8750, 8950, 9050, 9250, 9350, 9450, 9650, 9750,
     10050, 10150, 10350, 10450, 10750, 10850, 11050, 11150, 11450, 11550, 11750, 11850,
     11950, 12150, 12450, 12650, 12750, 12950, 13050, 13250, 13350, 13550, 13750, 13850,
     14050, 14150, 14350, 14450, 14650, 14950, 15150, 15250, 15450, 15550, 15750, 15850,
     16050, 16350, 16550, 16650, 16850}

por_4_33(c) ==
    LET q == (c * 433) \div 100
        r == (c * 433) % 100
    IN  IF r < 50 THEN q
        ELSE IF r > 50 THEN q + 1
        ELSE IF c \in TiesArriba THEN q + 1 ELSE q

(***************************************************************************)
(* Normalized constants                                                    *)
(***************************************************************************)
TELEFONISTA == normalizar_str(<<"T","E","L","E","F","O","N","I","S","T","A">>)
RECEP_LAB == normalizar_str(<<"R","E","C","E","P","C","I","O","N","I","S","T","A"," ","D","E"," ","L","A","B","O","R","A","T","O","R","I","O">>)
TEC_CARDIO == normalizar_str(<<"T","E","C","N","I","C","O"," ","E","N"," ","P","R","A","C","T","I","C","A","S"," ","C","A","R","D","I","O","L","O","G","I","C","A","S">>)
OP_LOGISTICA == normalizar_str(<<"O","P","E","R","A","R","I","O"," ","D","E"," ","L","O","G","I","S","T","I","C","A">>)

valores_profesionales_para_comparacion ==
    {normalizar_str(<<"M","E","D","I","C","O">>), normalizar_str(<<"M","E","D","I","C","A">>), normalizar_str(<<"M","E","D","I","C","O","/","A">>),
     normalizar_str(<<"O","D","O","N","T","O","L","O","G","O","/","A">>), normalizar_str(<<"O","D","O","N","T","O","L","O","G","O","/","A"," ","F","E","L","L","O","W">>)}

\* PISOS_HORARIOS, in hours
PISO_GENERAL == 36
PISO_LABORATORIO == 27
PISO_IMAGENES == 18

SECTOR_EXCLUIDO_LABORATORIO == normalizar_str(<<"L","a","b","o","r","a","t","o","r","i","o">>)

SECTORES_IMAGENES ==
    {normalizar_str(<<"M","A","M","O","G","R","A","F","I","A">>), normalizar_str(<<"I","M","A","G","E","N","E","S"," ","D","M","F">>),
     normalizar_str(<<"T","O","M","O","G","R","A","F","I","A"," ","C","O","M","P","U","T","A","D","A">>), normalizar_str(<<"D","E","N","S","I","T","O","M","E","T","R","I","A">>),
     normalizar_str(<<"M","E","D","I","C","I","N","A"," ","N","U","C","L","E","A","R">>), normalizar_str(<<"P","E","T","/","C","T">>),
     normalizar_str(<<"R","A","D","I","O","L","O","G","I","A">>), normalizar_str(<<"R","E","S","O","N","A","N","C","I","A"," ","M","A","G","N","E","T","I","C","A">>),
     normalizar_str(<<"I","M","A","G","E","N","E","S">>)}

SEDES_NO_LIQUIDA_PLUS ==
    {normalizar_str(<<"C","L","I","N","I","C","A"," ","B","A","Z","T","E","R","R","I","C","A">>), normalizar_str(<<"C","L","I","N","I","C","A"," ","D","E","L"," ","S","O","L">>),
     normalizar_str(<<"C","O","N","S","U","L","T","O","R","I","O","S"," ","B","A","Z","T","E","R","R","I","C","A">>), normalizar_str(<<"P","A","T","E","R","N","A","L">>),
     normalizar_str(<<"C"," ","D","E","L"," ","S","O","L">>), normalizar_str(<<"C","D","S">>), normalizar_str(<<"C","."," ","D","E","L"," ","S","O","L">>)}

sedes_permitidas ==
    {normalizar_str(<<"c","l","í","n","i","c","a"," ","d","e","l"," ","s","o","l">>), normalizar_str(<<"c","."," ","d","e","l"," ","s","o","l">>),
     normalizar_str(<<"c","d","s">>), normalizar_str(<<"s","a","n"," ","m","i","g","u","e","l">>), normalizar_str(<<"s","m">>),
     normalizar_str(<<"b","a","z","t","e","r","r","i","c","a">>), normalizar_str(<<"c","o","n","s","."," ","e","x","t","."," ","c","l","."," ","b","a","z","t","e","r","r","i","c","a">>),
     normalizar_str(<<"c","l","i","n","i","c","a"," ","b","a","z","t","e","r","r","i","c","a">>), normalizar_str(<<"C","o","n","s","."," ","E","x","t","."," ","C","l","."," ","B","a","z","t","e","r","r","i","c","a">>),
     normalizar_str(<<"S","a","n","t","a"," ","I","s","a","b","e","l">>), normalizar_str(<<"C","l","i","n","i","c","a"," ","S","a","n","t","a"," ","I","s","a","b","e","l">>)}

SECTORES_MEDICOS == {normalizar_str(<<"E","C","O","G","R","A","F","I","A">>), normalizar_str(<<"M","A","M","O","G","R","A","F","I","A">>)}

DIAS_ESPECIALES == {0, 1, 2}

\* ConfigArt19
PUESTOS_ART19 ==
    {normalizar_str(<<"T","E","C","N","I","C","O"," ","D","E"," ","L","A","B","O","R","A","T","O","R","I","O">>), normalizar_str(<<"E","X","T","R","A","C","C","I","O","N","I","S","T","A">>),
     normalizar_str(<<"B","I","O","Q","U","I","M","I","C","O">>), normalizar_str(<<"A","U","X","I","L","I","A","R"," ","T","É","C","N","I","C","O">>)}
SECTOR_ART19 == normalizar_str(<<"L","A","B","O","R","A","T","O","R","I","O">>)
CATEGORIA_ART19_PREFIX == <<"d","c","_">>
HORAS_MIN_ART19 == 36
HORAS_MAX_ART19 == 48
PORCENTAJE_MAX_ART19 == 33
HORAS_BASE_CALCULO_ART19 == 48

\* ConfigExtensionHoraria
PUESTOS_EXTENSION == {normalizar_str(<<"T","E","C","N","I","C","O">>), normalizar_str(<<"T","E","C","N","I","C","O"," ","P","I","V","O","T">>)}
ID_LEGAJO_MAX == 3999
HORAS_MINIMAS == 24

\* ConfigBioimagenes
PUESTOS_BIOIMAGENES ==
    {normalizar_str(<<"T","E","C","N","I","C","O">>), normalizar_str(<<"T","E","C","N","I","C","O"," ","D","E"," ","R","E","P","R","O","C","E","S","O">>),
     normalizar_str(<<"T","E","C","N","I","C","O"," ","P","I","V","O","T">>)}
TERMINOS_ADICIONALES ==
    {normalizar_str(<<"L","I","C","."," ","E","N"," ","B","I","O","I","M","A","G","E","N","E","S">>), normalizar_str(<<"B","I","O","I","M","A","G","E","N","E","S">>),
     normalizar_str(<<"L","I","C","E","N","C","I","A","D","O"," ","E","N"," ","B","I","O","I","M","A","G","E","N","E","S">>), normalizar_str(<<"P","R","E","S","E","N","T","Ó"," ","T","Í","T","U","L","O">>),
     normalizar_str(<<"T","Í","T","U","L","O">>)}

TERMINOS_CESION == {normalizar_str(<<"C","e","s","i","ó","n">>), normalizar_str(<<"C","E","C","I","O","N">>)}

(***************************************************************************)
(* The legajo                                                              *)
(*   [id_legajo,                                                           *)
(*    datos_personales: [sede, puesto, sector: [principal, subsector]],    *)
(*    contratacion: [categoria, fechas: [fin]],                            *)
(*    horario: [bloques, resumen],                                         *)
(*    remuneracion: [sueldo_base, adicionables]]                           *)
(*   with JSON values in the leaves, a sequence of blocks in bloques and   *)
(*   the dict of calcular_resumen_horario in resumen.                      *)
(***************************************************************************)

(***************************************************************************)
(* validar_horario                                                         *)
(***************************************************************************)
\* faulty variant: only the empty list is rejected, incomplete blocks pass
validar_horario_sin_claves(l) == l.horario.bloques # << >>

validar_horario(l) ==
    /\ l.horario.bloques # << >>
    /\ \A i \in DOMAIN l.horario.bloques :
          {"dias_semana", "hora_inicio", "hora_fin"} \subseteq l.horario.bloques[i].claves

(***************************************************************************)
(* obtener_horas_semanales                                                 *)
(***************************************************************************)
obtener_horas_semanales(l) ==
    LET horas_raw == get(l.horario.resumen.total_horas_semanales, None)
    IN  IF es_None(horas_raw) THEN Num(0, 2)
        ELSE IF ~float_valido(horas_raw) THEN Num(0, 2)
        ELSE LET horas == float(horas_raw)
             IN  IF menor(horas, 0) \/ mayor(horas, 168 * 100) THEN Num(0, 2)
                 ELSE horas

(***************************************************************************)
(* calcular_dias_mensuales                                                 *)
(***************************************************************************)
RECURSIVE mcd(_, _)
mcd(a, b) == IF b = 0 THEN a ELSE mcd(b, a % b)

\* the rational n/d in lowest terms, as <<n, d>>
fraccion(n, d) == LET g == mcd(n, d) IN <<n \div g, d \div g>>

sumar_fracciones(a, b) == fraccion(a[1] * b[2] + b[1] * a[2], a[2] * b[2])

\* str(bloque.get("periodicidad", "")).lower()
periodicidad_de(entrada) == lower(entrada.periodicidad)

PeriodicidadesReconocidas == {<<"s","e","m","a","n","a","l">>, <<"q","u","i","n","c","e","n","a","l">>, <<"m","e","n","s","u","a","l">>, <<"p","r","o","p","o","r","c","i","o","n","a","l">>}

\* faulty variant: a monthly day counts as a biweekly one
aporte_bloque_mensual_medio(entrada) ==
    LET periodicidad == periodicidad_de(entrada)
    IN  CASE periodicidad = <<"s","e","m","a","n","a","l">> -> <<1, 1>>
          [] periodicidad = <<"q","u","i","n","c","e","n","a","l">> -> <<1, 2>>
          [] periodicidad = <<"m","e","n","s","u","a","l">> -> <<1, 2>>
          [] OTHER ->
               IF entrada.duracion_total > 0 /\ entrada.horas_semanales > 0
               THEN fraccion(entrada.horas_semanales, entrada.duracion_total)
               ELSE <<3, 4>>

\* what the first block with a recognized periodicity adds for its day
aporte_bloque(entrada) ==
    LET periodicidad == periodicidad_de(entrada)
    IN  CASE periodicidad = <<"s","e","m","a","n","a","l">> -> <<1, 1>>
          [] periodicidad = <<"q","u","i","n","c","e","n","a","l">> -> <<1, 2>>
          [] periodicidad = <<"m","e","n","s","u","a","l">> -> <<1, 4>>
          [] OTHER ->
               IF entrada.duracion_total > 0 /\ entrada.horas_semanales > 0
               THEN fraccion(entrada.horas_semanales, entrada.duracion_total)
               ELSE <<3, 4>>

\* one iteration of "for dia_str, bloques in bloques_por_dia.items()"
aporte_dia(bloques) ==
    IF bloques = << >> THEN <<0, 1>>
    ELSE LET reconocidos == {i \in DOMAIN bloques :
                                periodicidad_de(bloques[i]) \in PeriodicidadesReconocidas}
         IN  IF reconocidos = {} THEN <<1, 1>>
             ELSE aporte_bloque(bloques[CHOOSE i \in reconocidos :
                                            \A j \in reconocidos : i <= j])

RECURSIVE dias_semanales(_, _)
dias_semanales(bloques_por_dia, dias) ==
    IF dias = {} THEN <<0, 1>>
    ELSE LET d == CHOOSE x \in dias : TRUE
         IN  sumar_fracciones(aporte_dia(bloques_por_dia[d]),
                              dias_semanales(bloques_por_dia, dias \ {d}))

\* int(dias_semanales * 4.33 + 0.5)
calcular_dias_mensuales(l) ==
    LET bloques_por_dia == l.horario.resumen.bloques_por_dia
    IN  IF DOMAIN bloques_por_dia = {} THEN 0
        ELSE LET s == dias_semanales(bloques_por_dia, DOMAIN bloques_por_dia)
             IN  (866 * s[1] + 100 * s[2]) \div (200 * s[2])

(***************************************************************************)
(* es_guardia                                                              *)
(***************************************************************************)
\* str(x or '')
str_o_vacio(v) == IF v.tipo = "str" THEN v.txt ELSE << >>

\* faulty variant: every day counts 1.0
peso_dia_guardia_entero(bloques) == 2

\* the day counts 0.5 when one of its blocks is 'quincenal', else 1.0; in halves
peso_dia_guardia(bloques) ==
    IF \E i \in DOMAIN bloques : bloques[i].periodicidad = <<"q","u","i","n","c","e","n","a","l">> THEN 1 ELSE 2

\* 2 * dias_trabajados_ponderados
dias_trabajados_ponderados(bloques_por_dia) ==
    Cardinality({d \in DOMAIN bloques_por_dia : peso_dia_guardia(bloques_por_dia[d]) = 1})
    + 2 * Cardinality({d \in DOMAIN bloques_por_dia : peso_dia_guardia(bloques_por_dia[d]) = 2})

es_guardia(l) ==
    LET sede_normalizada == normalizar_texto(l.datos_personales.sede)
        adicionables_normalizados ==
            normalizar_str(str_o_vacio(l.remuneracion.adicionables))
    IN  /\ sede_normalizada \in sedes_permitidas
        /\ Contiene(adicionables_normalizados, <<"f","u","l","l"," ","g","u","a","r","d","i","a">>)
        /\ ~(dias_trabajados_ponderados(l.horario.resumen.bloques_por_dia) > 2 * 3)

(***************************************************************************)
(* cumple_condicion_sueldo_basico                                          *)
(***************************************************************************)
\* faulty variant: the salary is not converted with float()
cumple_condicion_sueldo_basico_sin_conversion(l) ==
    /\ l.contratacion.categoria = Str(<<"f","c","_","p","f","c">>)
    /\ ~es_None(l.remuneracion.sueldo_base)

cumple_condicion_sueldo_basico(l) ==
    /\ l.contratacion.categoria = Str(<<"f","c","_","p","f","c">>)
    /\ ~es_None(l.remuneracion.sueldo_base)
    /\ float_valido(l.remuneracion.sueldo_base)

(***************************************************************************)
(* es_full_nocturno                                                        *)
(***************************************************************************)
\* the per-day figures of the loop over bloques_del_dia, hours in hundredths
total_horas_dia(bloques) == Suma([i \in DOMAIN bloques |-> bloques[i].duracion_total])

total_horas_nocturnas_dia(bloques) ==
    Suma([i \in DOMAIN bloques |-> bloques[i].horas_nocturnas])

tiene_horas_nocturnas(bloques) == \E i \in DOMAIN bloques : bloques[i].horas_nocturnas > 0

\* minutes of the earliest 'inicio' of the day
hora_inicio_mas_temprana(bloques) ==
    LET ms == {minutos(bloques[i].inicio) : i \in DOMAIN bloques}
    IN  CHOOSE m \in ms : \A n \in ms : m <= n

\* faulty variant: no schedule is full-night
es_full_nocturno_nunca(l) == FALSE

es_full_nocturno(l) ==
    LET bloques_por_dia == l.horario.resumen.bloques_por_dia
        dias == {d \in DOMAIN bloques_por_dia : bloques_por_dia[d] # << >>}
        total_dias == Cardinality(DOMAIN bloques_por_dia)
        dias_con_nocturnidad ==
            Cardinality({d \in dias : tiene_horas_nocturnas(bloques_por_dia[d])})
        dias_con_mayoria_nocturna ==
            Cardinality({d \in dias :
                /\ total_horas_dia(bloques_por_dia[d]) > 0
                /\ 2 * total_horas_nocturnas_dia(bloques_por_dia[d])
                     > total_horas_dia(bloques_por_dia[d])})
        dias_con_inicio_18_o_despues ==
            Cardinality({d \in dias : hora_inicio_mas_temprana(bloques_por_dia[d]) >= 1080})
        condicion_a == dias_con_nocturnidad * 100 > 80 * total_dias
        condicion_b == dias_con_mayoria_nocturna = total_dias
        condicion_c == dias_con_inicio_18_o_despues = total_dias
    IN  /\ total_dias # 0
        /\ condicion_a /\ condicion_b /\ condicion_c

(***************************************************************************)
(* obtener_horas_nocturnas: monthly night hours, in hundredths             *)
(***************************************************************************)
\* faulty variant: guards keep their night hours
obtener_horas_nocturnas_de_todos(l, guardia) ==
    LET horas_semanales_raw == get(l.horario.resumen.total_horas_nocturnas, Num(0, 0))
    IN  IF ~float_valido(horas_semanales_raw) THEN 0
        ELSE LET horas_semanales == float(horas_semanales_raw)
             IN  IF horas_semanales.tipo = "nan" THEN 0
                 ELSE por_4_33(Max2(0, Min2(horas_semanales.num, 168 * 100)))

obtener_horas_nocturnas(l, guardia) ==
    IF guardia THEN 0
    ELSE LET horas_semanales_raw == get(l.horario.resumen.total_horas_nocturnas, Num(0, 0))
         IN  IF ~float_valido(horas_semanales_raw) THEN 0
             ELSE LET horas_semanales == float(horas_semanales_raw)
                      \* max(0.0, min(horas_semanales, 168.0)); with NaN, min gives
                      \* NaN and max gives 0.0
                      horas_semanales_validas ==
                          IF horas_semanales.tipo = "nan" THEN 0
                          ELSE Max2(0, Min2(horas_semanales.num, 168 * 100))
                  IN  por_4_33(horas_semanales_validas)

(***************************************************************************)
(* aplicar_adicional_nocturno                                              *)
(***************************************************************************)
aplicar_adicional_nocturno(l, horas_nocturnas, guardia) ==
    LET categoria == get(l.contratacion.categoria, Str(<< >>))
    IN  /\ ~guardia
        /\ ~(horas_nocturnas <= 0)
        /\ truthy(categoria)
        /\ categoria.tipo = "str"
        /\ startswith(lower(categoria.txt), <<"d","c","_">>)

\* faulty variant: the full-night case falls through to the normal case
variables_nocturnas_sin_rama_exclusiva(l, guardia) ==
    LET v1157 == obtener_horas_nocturnas(l, guardia)
        full_nocturno == IF v1157 > 0 THEN es_full_nocturno(l) ELSE FALSE
        v1498 == IF aplicar_adicional_nocturno(l, v1157, guardia)
                 THEN << <<1498, Num(1, 0)>> >> ELSE << >>
    IN  IF v1157 = 0 THEN << >>
        ELSE (IF full_nocturno THEN v1498 ELSE << >>) \o << <<1157, Num(v1157, 2)>> >> \o v1498

\* the results of rules 1157 and 1498
variables_nocturnas(l, guardia) ==
    LET v1157 == obtener_horas_nocturnas(l, guardia)
        full_nocturno == IF v1157 > 0 THEN es_full_nocturno(l) ELSE FALSE
        v1498 == IF aplicar_adicional_nocturno(l, v1157, guardia)
                 THEN << <<1498, Num(1, 0)>> >> ELSE << >>
    IN  IF v1157 = 0 THEN << >>
        ELSE IF full_nocturno THEN v1498
        ELSE << <<1157, Num(v1157, 2)>> >> \o v1498

(***************************************************************************)
(* aplicar_lavado_uniforme, aplicar_proporcion_lavado                      *)
(***************************************************************************)
aplicar_lavado_uniforme(l) ==
    /\ normalizar_texto(l.datos_personales.puesto) = normalizar_str(<<"O","P","E","R","A","R","I","O"," ","D","E"," ","L","O","G","I","S","T","I","C","A">>)
    /\ normalizar_texto(l.datos_personales.sector.subsector) = normalizar_str(<<"I","N","T","E","R","I","O","R">>)

aplicar_proporcion_lavado(l) ==
    LET horas_raw == get(l.horario.resumen.total_horas_semanales, None)
    IN  /\ normalizar_texto(l.datos_personales.puesto) = normalizar_str(<<"O","P","E","R","A","R","I","O"," ","D","E"," ","L","O","G","I","S","T","I","C","A">>)
        /\ normalizar_texto(l.datos_personales.sector.subsector) = normalizar_str(<<"I","N","T","E","R","I","O","R">>)
        /\ ~es_None(horas_raw)
        /\ float_valido(horas_raw)
        /\ menor(float(horas_raw), 35 * 100)

(***************************************************************************)
(* aplicar_no_liquida_plus, es_cajero, es_medico_productividad             *)
(***************************************************************************)
aplicar_no_liquida_plus(l, guardia) ==
    /\ guardia
    /\ ~(l.id_legajo <= 15000)
    /\ truthy(l.datos_personales.sede)
    /\ normalizar_texto(l.datos_personales.sede) \in SEDES_NO_LIQUIDA_PLUS

\* puesto.upper() contains "CAJERO": the normalized puesto contains "cajero"
es_cajero(l) ==
    /\ truthy(l.datos_personales.puesto)
    /\ Contiene(normalizar_texto(l.datos_personales.puesto), <<"c","a","j","e","r","o">>)
    /\ truthy(l.contratacion.categoria)
    /\ \/ Contiene(normalizar_texto(l.contratacion.categoria), <<"a","d","m">>)
       \/ Contiene(normalizar_texto(l.contratacion.categoria), <<"a","d","m","i","n","i","s","t","r","a","t","i","v","o">>)

es_medico_productividad(l) ==
    /\ ~es_None(l.datos_personales.puesto)
    /\ normalizar_texto(l.datos_personales.puesto) = normalizar_str(<<"M","E","D","I","C","O">>)
    /\ ~es_None(l.datos_personales.sector.principal)
    /\ normalizar_texto(l.datos_personales.sector.principal) \in SECTORES_MEDICOS

(***************************************************************************)
(* calcular_horas_mensuales (variable 4), a float                          *)
(***************************************************************************)
\* faulty variant: the list without BIOQUIMICO
puestos_piso_27_sin_bioquimico ==
    {normalizar_str(<<"A","U","X","I","L","I","A","R"," ","T","E","C","N","I","C","O">>), normalizar_str(<<"T","E","C","N","I","C","O"," ","D","E"," ","L","A","B","O","R","A","T","O","R","I","O">>),
     normalizar_str(<<"T","E","C","N","I","C","O"," ","E","X","T","R","A","C","C","I","O","N","I","S","T","A">>)}

puestos_piso_27 ==
    {normalizar_str(<<"A","U","X","I","L","I","A","R"," ","T","E","C","N","I","C","O">>), normalizar_str(<<"T","E","C","N","I","C","O"," ","D","E"," ","L","A","B","O","R","A","T","O","R","I","O">>),
     normalizar_str(<<"T","E","C","N","I","C","O"," ","E","X","T","R","A","C","C","I","O","N","I","S","T","A">>), normalizar_str(<<"B","I","O","Q","U","I","M","I","C","O">>)}

sectores_laboratorio ==
    {normalizar_str(<<"L","A","B","O","R","A","T","O","R","I","O">>), normalizar_str(<<"A","T","E","N","C","I","O","N"," ","A","L"," ","C","L","I","E","N","T","E"," ","L","A","B","O","R","A","T","O","R","I","O">>),
     normalizar_str(<<"L","A","B","O","R","A","T","O","R","I","O"," ","C","L","I","N","I","C","O">>), normalizar_str(<<"A","N","A","L","I","S","I","S"," ","C","L","I","N","I","C","O","S">>)}

\* "2. Casos especiales de 200 hs"
caso_200(puesto, sector, v239) ==
    \/ (sector = <<"c","u","a","t">> /\ puesto = TELEFONISTA /\ igual(v239, 35 * 100))
    \/ (puesto = RECEP_LAB /\ igual(v239, 35 * 100))
    \/ (puesto = TEC_CARDIO /\ mayor_igual(v239, 35 * 100))
    \/ (puesto = OP_LOGISTICA /\ mayor_igual(v239, 35 * 100))
    \/ (sector = <<"a","t","e","n","c","i","o","n"," ","a","l"," ","c","l","i","e","n","t","e"," ","l","a","b","o","r","a","t","o","r","i","o">> /\ puesto = <<"r","e","c","e","p","c","i","o","n","i","s","t","a">>
          /\ mayor_igual(v239, 35 * 100))
    \/ (puesto = normalizar_str(<<"a","s","i","s","t","e","n","t","e"," ","t","e","c","n","i","c","o">>) /\ igual(v239, 35 * 100))

\* "4. Casos de puestos técnicos con piso 18 horas"
caso_tecnico_156(puesto, sector, v239) ==
    /\ puesto \in {normalizar_str(<<"T","E","C","N","I","C","O">>), normalizar_str(<<"T","E","C","N","I","C","O"," ","P","I","V","O","T">>)}
    /\ sector # SECTOR_EXCLUIDO_LABORATORIO
    /\ mayor_igual(v239, 18 * 100) /\ menor_igual(v239, 36 * 100)

\* faulty variant: the floor chosen by the sector alone
piso_general_por_sector(puesto, sector) ==
    IF normalizar_str(sector) \in sectores_laboratorio THEN PISO_LABORATORIO
    ELSE IF normalizar_str(sector) \in SECTORES_IMAGENES THEN PISO_IMAGENES
    ELSE PISO_GENERAL

\* "6. Caso general con pisos": the floor, in hours
piso_general(puesto, sector) ==
    LET sector_normalizado == normalizar_str(sector)
        puesto_normalizado == normalizar_str(puesto)
    IN  IF sector_normalizado \in sectores_laboratorio /\ puesto_normalizado \in puestos_piso_27
        THEN PISO_LABORATORIO
        ELSE IF sector_normalizado \in SECTORES_IMAGENES
                /\ puesto_normalizado \in PUESTOS_BIOIMAGENES
        THEN PISO_IMAGENES
        ELSE PISO_GENERAL

\* round(x * 4.33, 2) of a float
float_por_4_33(v) == IF v.tipo = "nan" THEN NaN ELSE Num(por_4_33(v.num), 2)

calcular_horas_mensuales(l, v239) ==
    LET puesto == normalizar_texto(l.datos_personales.puesto)
        sector == normalizar_texto(l.datos_personales.sector.principal)
    IN  IF caso_200(puesto, sector, v239) THEN Num(200 * 100, 2)
        ELSE IF puesto \in puestos_piso_27
                /\ mayor_igual(v239, 27 * 100) /\ menor_igual(v239, 36 * 100)
        THEN Num(156 * 100, 2)
        ELSE IF puesto \in puestos_piso_27 /\ menor(v239, 27 * 100)
        THEN Num(por_4_33(27 * 100), 2)
        ELSE IF caso_tecnico_156(puesto, sector, v239) THEN Num(156 * 100, 2)
        ELSE IF puesto \in valores_profesionales_para_comparacion THEN float_por_4_33(v239)
        ELSE IF menor(v239, piso_general(puesto, sector) * 100)
        THEN Num(por_4_33(piso_general(puesto, sector) * 100), 2)
        ELSE Num(200 * 100, 2)

(***************************************************************************)
(* es_puesto_especial                                                      *)
(***************************************************************************)
\* str.replace(old, new) / re.sub of a literal: non-overlapping, left to right
RECURSIVE replace(_, _, _)
replace(s, old, new) ==
    IF Len(s) < Len(old) THEN s
    ELSE IF SubSeq(s, 1, Len(old)) = old
         THEN new \o replace(SubSeq(s, Len(old) + 1, Len(s)), old, new)
         ELSE <<Head(s)>> \o replace(Tail(s), old, new)

\* re.sub(r'\s+\bde\b\s+', ' ', p).strip().lower(), on a normalized text
limpiar_puesto(p) == lower(strip(replace(p, <<" ","d","e"," ">>, <<" ">>)))

PUESTOS_ESPECIALES ==
    {TELEFONISTA, RECEP_LAB, TEC_CARDIO, OP_LOGISTICA,
     normalizar_str(<<"M","E","D","I","C","O">>), normalizar_str(<<"M","E","D","I","C","A">>), normalizar_str(<<"M","E","D","I","C","O","/","A">>),
     normalizar_str(<<"O","D","O","N","T","O","L","O","G","O","/","A">>), normalizar_str(<<"O","D","O","N","T","O","L","O","G","O","/","A"," ","F","E","L","L","O","W">>)}

es_puesto_especial(puesto_normalizado) ==
    LET puesto_limpio == limpiar_puesto(puesto_normalizado)
    IN  \E puesto_especial \in PUESTOS_ESPECIALES :
            LET especial_limpio == limpiar_puesto(puesto_especial)
            IN  \/ puesto_limpio = especial_limpio
                \/ startswith(puesto_limpio, especial_limpio \o <<" ">>)
                \/ startswith(especial_limpio, puesto_limpio \o <<" ">>)

(***************************************************************************)
(* calcular_jornada_reducida (variable 1167): None or a float with 4       *)
(* decimals                                                                *)
(***************************************************************************)
\* round((total_horas / piso) * 100, 4), in units of 10^-4, for total_horas of
\* c hundredths and a floor of piso hours; the quotient is never on a tie
porcentaje_jornada(c, piso) == (2 * c * 10000 + piso) \div (2 * piso)

\* the floor of the general sector for every record
piso_jornada_general(puesto, sector) == PISO_GENERAL

\* the floor of calcular_jornada_reducida, in hours
piso_jornada(puesto, sector) ==
    IF sector \in sectores_laboratorio /\ puesto \in puestos_piso_27 THEN 27
    ELSE IF sector = normalizar_str(<<"m","e","d","i","c","i","n","a"," ","n","u","c","l","e","a","r">>)
            /\ puesto = normalizar_str(<<"a","s","i","s","t","e","n","t","e"," ","t","e","c","n","i","c","o">>) THEN PISO_GENERAL
    ELSE IF sector \in SECTORES_IMAGENES THEN PISO_IMAGENES
    ELSE IF sector \in sectores_laboratorio THEN PISO_LABORATORIO
    ELSE PISO_GENERAL

calcular_jornada_reducida(l, guardia) ==
    LET puesto == normalizar_texto(l.datos_personales.puesto)
        sector == normalizar_texto(l.datos_personales.sector.principal)
        total_horas == get(l.horario.resumen.total_horas_semanales, Num(0, 2))
        categoria == get(l.contratacion.categoria, Str(<< >>))
        dias_trabajo == Range(l.horario.resumen.dias_trabajo)
    IN  IF categoria.tipo = "str"
           /\ replace(lower(categoria.txt), <<" ">>, <<"_">>) \in {<<"p","f","c">>, <<"f","c","_","p","f","c">>} THEN None
        ELSE IF guardia THEN None
        ELSE IF puesto = << >> THEN None
        ELSE IF sector = << >> THEN None
        ELSE IF es_puesto_especial(puesto) /\ igual(total_horas, 35 * 100) THEN None
        ELSE IF puesto = normalizar_str(<<"a","s","i","s","t","e","n","t","e"," ","t","e","c","n","i","c","o">>) /\ igual(total_horas, 35 * 100)
        THEN None
        ELSE IF igual(total_horas, 18 * 100) /\ DIAS_ESPECIALES \subseteq dias_trabajo
        THEN Num(porcentaje_jornada(18 * 100, 45), 4)
        \* None < piso and str < piso raise TypeError; NaN < piso is false
        ELSE IF total_horas.tipo # "num" THEN None
        ELSE IF menor(total_horas, piso_jornada(puesto, sector) * 100)
        THEN Num(porcentaje_jornada(centesimas(total_horas), piso_jornada(puesto, sector)), 4)
        ELSE None

(***************************************************************************)
(* calcular_jornada_art19 (1416), calcular_porcentaje_art19 (1599)         *)
(***************************************************************************)
\* faulty variant: the prefix is compared as written, underscore included
calcular_jornada_art19_prefijo_sin_normalizar(l, horas_semanales) ==
    LET categoria == normalizar_texto(get(l.contratacion.categoria, Str(<< >>)))
        puesto == normalizar_texto(l.datos_personales.puesto)
        sector == normalizar_texto(l.datos_personales.sector.principal)
    IN  IF /\ Contiene(categoria, CATEGORIA_ART19_PREFIX)
           /\ puesto \in PUESTOS_ART19
           /\ sector = SECTOR_ART19
           /\ mayor(horas_semanales, HORAS_MIN_ART19 * 100)
        THEN Num(1, 0) ELSE None

calcular_jornada_art19(l, horas_semanales) ==
    LET categoria == normalizar_texto(get(l.contratacion.categoria, Str(<< >>)))
        categoria_prefix == normalizar_str(CATEGORIA_ART19_PREFIX)
        puesto == normalizar_texto(l.datos_personales.puesto)
        sector == normalizar_texto(l.datos_personales.sector.principal)
    IN  IF /\ Contiene(categoria, categoria_prefix)
           /\ puesto \in PUESTOS_ART19
           /\ sector = SECTOR_ART19
           /\ mayor(horas_semanales, HORAS_MIN_ART19 * 100)
        THEN Num(1, 0) ELSE None

\* round(33 * (v239 / 48), 4) in units of 10^-4, for v239 of c hundredths: the
\* exact value is c * 275 / 4.  On a tie (c = 2 mod 4) the float product falls
\* on either side; TiesArriba1599 lists the ties of (36, 48) on the half-hour
\* grid whose float result rounds up.
TiesArriba1599 ==
    {3650, 3850, 4050, 4250, 4450, 4650}

\* the percentage over a base of 36 hours
porcentaje_art19_base_36(c) == (c * 33 * 100) \div 36

porcentaje_art19(c) ==
    LET q == (c * 275) \div 4
        r == (c * 275) % 4
    IN  IF r < 2 THEN q
        ELSE IF r > 2 THEN q + 1
        ELSE IF c \in TiesArriba1599 THEN q + 1 ELSE q

calcular_porcentaje_art19(l, v239) ==
    LET puesto_raw == l.datos_personales.puesto
        categoria_raw == l.contratacion.categoria
        sector_principal_raw == l.datos_personales.sector.principal
    IN  IF es_None(puesto_raw) \/ es_None(categoria_raw) \/ categoria_raw.tipo # "str"
           \/ es_None(sector_principal_raw) THEN None
        ELSE IF ~Contiene(lower(categoria_raw.txt), CATEGORIA_ART19_PREFIX) THEN None
        ELSE IF normalizar_texto(puesto_raw) \notin PUESTOS_ART19 THEN None
        ELSE IF normalizar_texto(sector_principal_raw) # SECTOR_ART19 THEN None
        ELSE IF ~(mayor(v239, HORAS_MIN_ART19 * 100) /\ menor_igual(v239, HORAS_MAX_ART19 * 100))
        THEN None
        ELSE IF igual(v239, HORAS_MAX_ART19 * 100) THEN Num(PORCENTAJE_MAX_ART19, 0)
        ELSE Num(porcentaje_art19(v239.num), 4)

(***************************************************************************)
(* calcular_extension_horaria (992)                                        *)
(***************************************************************************)
calcular_extension_horaria(l, v239) ==
    LET puesto_raw == l.datos_personales.puesto
        sector_principal_raw == l.datos_personales.sector.principal
    IN  IF l.id_legajo > ID_LEGAJO_MAX THEN None
        ELSE IF es_None(puesto_raw) THEN None
        ELSE IF normalizar_texto(puesto_raw) \notin PUESTOS_EXTENSION THEN None
        ELSE IF es_None(sector_principal_raw) THEN None
        ELSE IF normalizar_texto(sector_principal_raw) \notin SECTORES_IMAGENES THEN None
        ELSE IF normalizar_texto(sector_principal_raw) = SECTOR_EXCLUIDO_LABORATORIO THEN None
        ELSE IF menor_igual(v239, HORAS_MINIMAS * 100) THEN None
        ELSE v239

(***************************************************************************)
(* calcular_adicional_resonancia (1151)                                    *)
(***************************************************************************)
\* the table without the key 36.0
TABLA_RESONANCIA_sin_36 ==
    (1200 :> 1) @@ (2400 :> 2) @@ (3000 :> 3) @@ (3400 :> 4) @@ (3500 :> 5) @@
    (4000 :> 7) @@ (4500 :> 8) @@ (3250 :> 9)

\* TABLA_RESONANCIA: hours in hundredths -> value
TABLA_RESONANCIA ==
    (1200 :> 1) @@ (2400 :> 2) @@ (3000 :> 3) @@ (3400 :> 4) @@ (3500 :> 5) @@
    (3600 :> 6) @@ (4000 :> 7) @@ (4500 :> 8) @@ (3250 :> 9)

\* the decimal digits of a natural number
RECURSIVE digitos_de(_)
digitos_de(n) ==
    IF n < 10 THEN <<ToString(n)>> ELSE Append(digitos_de(n \div 10), ToString(n % 10))

\* f"{x}" for a float of c >= 0 hundredths: the shortest repr, "40.0", "35.5", "35.25"
repr_float(v) ==
    IF v.tipo = "nan" THEN <<"n","a","n">>
    ELSE LET e == v.num \div 100
             f == v.num % 100
         IN  digitos_de(e) \o <<".">>
             \o (IF f % 10 = 0 THEN digitos_de(f \div 10)
                 ELSE <<ToString(f \div 10), ToString(f % 10)>>)

calcular_adicional_resonancia(l, v239) ==
    LET puesto_raw == l.datos_personales.puesto
        sector_principal_raw == l.datos_personales.sector.principal
    IN  IF es_None(puesto_raw) THEN None
        ELSE IF normalizar_texto(puesto_raw) \notin PUESTOS_BIOIMAGENES THEN None
        ELSE IF es_None(sector_principal_raw) THEN None
        ELSE IF normalizar_texto(sector_principal_raw) # normalizar_str(<<"r","e","s","o","n","a","n","c","i","a"," ","m","a","g","n","e","t","i","c","a">>)
        THEN None
        ELSE IF v239.tipo = "num" /\ v239.num \in DOMAIN TABLA_RESONANCIA
        THEN Num(TABLA_RESONANCIA[v239.num], 0)
        ELSE Str(<<"N","o"," ","e","x","i","s","t","e"," ","e","q","u","i","v","a","l","e","n","c","i","a"," ","d","e"," ","A","d","i","c"," ","R","e","s","o","n","a","n","c","i","a"," ","p","a","r","a"," ","e","s","a","s"," ","h","s"," ","s","e","m","a","n","a","l","e","s"," ","(">>
                 \o repr_float(v239) \o <<"h","s",")">>)

(***************************************************************************)
(* calcular_dias_especiales (1131)                                         *)
(***************************************************************************)
\* the rule without the holiday condition
calcular_dias_especiales_sin_feriado(l, v1242) ==
    LET puesto == normalizar_texto(l.datos_personales.puesto)
        dias_semana_set == Range(l.horario.resumen.dias_trabajo)
    IN  IF dias_semana_set = {5, 6, 7} THEN Num(10, 0)
        ELSE IF dias_semana_set = {0, 1, 2} THEN Num(10, 0)
        ELSE IF v1242 < 22 \/ puesto \in valores_profesionales_para_comparacion
        THEN Num(v1242, 0)
        ELSE None

calcular_dias_especiales(l, v1242) ==
    LET puesto == normalizar_texto(l.datos_personales.puesto)
        dias_semana_set == Range(l.horario.resumen.dias_trabajo)
    IN  IF dias_semana_set = {5, 6, 7} THEN Num(10, 0)
        ELSE IF dias_semana_set = {0, 1, 2} THEN Num(10, 0)
        ELSE IF v1242 < 22 \/ puesto \in valores_profesionales_para_comparacion
                \/ 7 \in dias_semana_set
        THEN Num(v1242, 0)
        ELSE None

(***************************************************************************)
(* obtener_fecha_fin_contrato (2006)                                       *)
(***************************************************************************)
\* the maximal runs of digits of s: re.split(r"[^\d]", s) without the empty parts
RECURSIVE grupos_de_digitos(_, _, _)
grupos_de_digitos(s, actual, grupos) ==
    IF s = << >>
    THEN IF actual = << >> THEN grupos ELSE Append(grupos, actual)
    ELSE IF Head(s) \in Digitos
         THEN grupos_de_digitos(Tail(s), Append(actual, Head(s)), grupos)
         ELSE grupos_de_digitos(Tail(s), << >>,
                                IF actual = << >> THEN grupos ELSE Append(grupos, actual))

dias_del_mes(m, a) ==
    IF m \in {4, 6, 9, 11} THEN 30
    ELSE IF m # 2 THEN 31
    ELSE IF a % 4 = 0 /\ (a % 100 # 0 \/ a % 400 = 0) THEN 29 ELSE 28

fecha_valida(d, m, a) == m \in 1..12 /\ d \in 1..dias_del_mes(m, a) /\ a >= 1

\* _parse_fecha_flexible on a str, for the shapes explored: three groups of
\* digits read as dd/mm/YYYY, else as YYYY/mm/dd; <<d, m, a>> or << >> (None)
parse_fecha_flexible(s) ==
    LET g == grupos_de_digitos(strip(s), << >>, << >>)
    IN  IF Len(g) # 3 THEN << >>
        ELSE LET n1 == valor_digitos(g[1])
                 n2 == valor_digitos(g[2])
                 n3 == valor_digitos(g[3])
             IN  IF Len(g[1]) <= 2 /\ Len(g[2]) <= 2 /\ Len(g[3]) = 4
                    /\ fecha_valida(n1, n2, n3) THEN <<n1, n2, n3>>
                 ELSE IF Len(g[1]) = 4 /\ Len(g[2]) <= 2 /\ Len(g[3]) <= 2
                         /\ fecha_valida(n3, n2, n1) THEN <<n3, n2, n1>>
                 ELSE << >>

dos_digitos(n) == <<ToString(n \div 10), ToString(n % 10)>>

cuatro_digitos(n) ==
    <<ToString(n \div 1000), ToString((n \div 100) % 10),
      ToString((n \div 10) % 10), ToString(n % 10)>>

\* strftime("%d/%m/%Y")
strftime_dmY(f) == dos_digitos(f[1]) \o <<"/">> \o dos_digitos(f[2]) \o <<"/">> \o cuatro_digitos(f[3])

obtener_fecha_fin_contrato(l) ==
    LET tipo_contrato == lower(str_o_vacio(l.contratacion.tipo))
        fecha_fin_raw == l.contratacion.fechas.fin
    IN  IF ~(Contiene(tipo_contrato, <<"p","l","a","z","o","_","f","i","j","o">>) \/ Contiene(tipo_contrato, <<"d","e","t","e","r","m","i","n","a","d","o">>))
        THEN None
        ELSE IF ~truthy(fecha_fin_raw) \/ fecha_fin_raw.tipo # "str" THEN None
        ELSE IF parse_fecha_flexible(fecha_fin_raw.txt) = << >> THEN None
        ELSE Str(strftime_dmY(parse_fecha_flexible(fecha_fin_raw.txt)))

(***************************************************************************)
(* es_licenciado_bioimagenes, procesar_variables_informativas              *)
(***************************************************************************)
SECTORES_HORAS_156 ==
    {normalizar_str(<<"L","A","B","O","R","A","T","O","R","I","O">>), normalizar_str(<<"M","A","M","O","G","R","A","F","I","A">>),
     normalizar_str(<<"I","M","A","G","E","N","E","S"," ","D","M","F">>), normalizar_str(<<"T","O","M","O","G","R","A","F","I","A"," ","C","O","M","P","U","T","A","D","A">>),
     normalizar_str(<<"D","E","N","S","I","T","O","M","E","T","R","I","A">>), normalizar_str(<<"M","E","D","I","C","I","N","A"," ","N","U","C","L","E","A","R">>),
     normalizar_str(<<"P","E","T","/","C","T">>), normalizar_str(<<"R","A","D","I","O","L","O","G","I","A">>),
     normalizar_str(<<"R","E","S","O","N","A","N","C","I","A"," ","M","A","G","N","E","T","I","C","A">>)}

es_licenciado_bioimagenes(l) ==
    /\ ~es_None(l.datos_personales.puesto)
    /\ normalizar_texto(l.datos_personales.puesto) \in PUESTOS_BIOIMAGENES
    /\ ~es_None(l.datos_personales.sector.principal)
    /\ normalizar_texto(l.datos_personales.sector.principal) \in SECTORES_HORAS_156
    /\ \E t \in TERMINOS_ADICIONALES : Contiene(normalizar_texto(l.remuneracion.adicionables), t)

\* the pairs procesar_variables_informativas appends, in order
variables_informativas(l) ==
    LET adicionables_raw == get(l.remuneracion.adicionables, Str(<< >>))
        adicionables_normalizado ==
            IF truthy(adicionables_raw) THEN normalizar_texto(adicionables_raw) ELSE << >>
        adicionables_para_intang ==
            replace(replace(replace(replace(adicionables_normalizado,
                <<"i","n","t","a","n","g">>, <<"i","n","t","a","n","g","i","b","i","l","i","d","a","d">>), <<"i","n","t","a","n","g",".">>, <<"i","n","t","a","n","g","i","b","i","l","i","d","a","d">>),
                <<"i","n","t","a","n">>, <<"i","n","t","a","n","g","i","b","i","l","i","d","a","d">>), <<"i","n","t","a","n","g","i","b">>, <<"i","n","t","a","n","g","i","b","i","l","i","d","a","d">>)
        sueldo_base == l.remuneracion.sueldo_base
        categoria == lower(strip(str_o_vacio(l.contratacion.categoria)))
        tiene_full_guardia == Contiene(adicionables_normalizado, <<"f","u","l","l"," ","g","u","a","r","d","i","a">>)
        sueldo_base_falta == es_None(sueldo_base) \/ sueldo_base = Str(<< >>)
    IN  (IF \E term \in TERMINOS_CESION : Contiene(adicionables_normalizado, term)
         THEN << <<7000, Str(<<"E","s"," ","c","e","s","i","ó","n",","," ","r","e","v","i","s","a","r",".">>)>> >> ELSE << >>)
        \o (IF Contiene(adicionables_para_intang, <<"i","n","t","a","n","g","i","b","i","l","i","d","a","d">>)
            THEN << <<8000, Str(<<"R","e","v","i","s","a","r"," ","I","m","p","o","r","t","e"," ","o"," ","%"," ","p","a","r","a"," ","I","n","t","a","n","g","i","b","i","l","i","d","a","d"," ","S","a","l","a","r","i","a","l">>)>> >>
            ELSE << >>)
        \o (IF \E term \in {<<"a","d","i","c"," ","v","o","l","u","n","t","a","r","i","o">>, <<"a","d","i","c","i","o","n","a","l"," ","v","o","l","u","n","t","a","r","i","o">>, <<"v","o","l","u","n","t","a","r","i","o"," ","e","m","p","r","e","s","a">>} :
                  Contiene(adicionables_normalizado, term)
            THEN << <<9000, Str(<<"R","e","v","i","s","a","r"," ","A","d","i","c"," ","V","o","l","u","n","t","a","r","i","o"," ","E","m","p","r","e","s","a">>)>> >> ELSE << >>)
        \o (IF es_licenciado_bioimagenes(l)
            THEN << <<10000, Str(<<"C","a","r","g","a","r"," ","T","í","t","u","l","o"," ","e","n"," ","C","P",","," ","e","s"," ","L","i","c","e","n","c","i","a","d","o">>)>> >> ELSE << >>)
        \o (IF Contiene(adicionables_normalizado, <<"p","p","r">>) /\ ~es_None(sueldo_base)
            THEN << <<11000, Str(<<"T","i","e","n","e"," ","P","P","R","."," ","R","e","v","i","s","a","r"," ","a","r","c","h","i","v","o">>)>> >> ELSE << >>)
        \o (IF categoria = <<"f","c","_","p","f","c">> /\ sueldo_base_falta /\ ~tiene_full_guardia
            THEN << <<12000, Str(<<"F","a","l","t","a"," ","s","u","e","l","d","o"," ","b","r","u","t","o"," ","p","a","c","t","a","d","o","."," ","R","e","v","i","s","a","r"," ","V","a","r"," ","1">>)>> >>
            ELSE << >>)
        \o (IF tiene_full_guardia
               /\ \E term \in {<<"c","a","p","a","c","i","t","a","c","i","o","n">>, <<"c","a","p","a">>} : Contiene(adicionables_normalizado, term)
            THEN << <<13000, Str(<<"R","e","v","i","s","a","r"," ","P","a","g","o"," ","d","e"," ","G","u","a","r","d","i","a","s"," ","d","e"," ","C","a","p","a","c","i","t","a","c","i","ó","n">>)>> >> ELSE << >>)

(***************************************************************************)
(* calcular_variables: the list of (code, value) pairs of a legajo         *)
(***************************************************************************)
\* CATALOGO_VARIABLES: the name of each variable code
CATALOGO_VARIABLES ==
    1 :> "Sueldo Bruto Pactado" @@
    4 :> "Horas Mensuales" @@
    239 :> "Horas Semanales" @@
    426 :> "Cajero/Seguro" @@
    992 :> "Extensión Horaria" @@
    1131 :> "Días Especiales Mensuales" @@
    1137 :> "Lavado de Uniforme" @@
    1151 :> "Adicional Resonancia Magnética" @@
    1157 :> "Horas Nocturnas Mensuales" @@
    1167 :> "Jornada Reducida (%)" @@
    1242 :> "Días Mensuales" @@
    1251 :> "Médico Productividad (Flag 1)" @@
    1252 :> "Médico Productividad (Flag 2)" @@
    1416 :> "Jornada Art. 19" @@
    1498 :> "Adicional Nocturno" @@
    1599 :> "Porcentaje Art. 19" @@
    1673 :> "Proporción Lavado" @@
    1740 :> "Médico Productividad (Principal)" @@
    2000 :> "Personal de Guardia" @@
    2006 :> "Fecha Fin de Contrato" @@
    2281 :> "No Liquida Plus Guardia" @@
    7000 :> "Info: Es Cesión" @@
    8000 :> "Info: Revisar Intangibilidad" @@
    9000 :> "Info: Adicional Voluntario" @@
    10000 :> "Info: Licenciado Bioimágenes" @@
    11000 :> "Info: PPR - Revisar Archivo" @@
    12000 :> "Info: Falta Sueldo Bruto PFC" @@
    13000 :> "Info: Guardias de Capacitación"

MENSAJE_HORARIO == <<"N","o"," ","s","e"," ","p","u","d","o"," ","i","n","t","e","r","p","r","e","t","a","r"," ","c","o","r","r","e","c","t","a","m","e","n","t","e"," ","e","l"," ","h","o","r","a","r","i","o">>

\* << <<codigo, valor>> >> when the rule returned a value, << >> when None
si_aplica(codigo, valor) == IF es_None(valor) THEN << >> ELSE << <<codigo, valor>> >>

\* << <<codigo, 1>> >> when the condition holds
si_cumple(codigo, condicion) == IF condicion THEN << <<codigo, Num(1, 0)>> >> ELSE << >>

calcular_variables(l) ==
    IF ~validar_horario(l)
    THEN << <<9000, Str(MENSAJE_HORARIO)>> >>
    ELSE LET v239 == obtener_horas_semanales(l)
             v1242 == calcular_dias_mensuales(l)
             es_guardia_actual == es_guardia(l)
         IN  << <<239, v239>>, <<1242, Num(v1242, 0)>> >>
             \o (IF cumple_condicion_sueldo_basico(l)
                 THEN << <<1, float(l.remuneracion.sueldo_base)>> >> ELSE << >>)
             \o si_cumple(2000, es_guardia_actual)
             \o << <<4, calcular_horas_mensuales(l, v239)>> >>
             \o variables_nocturnas(l, es_guardia_actual)
             \o si_aplica(992, calcular_extension_horaria(l, v239))
             \o si_aplica(1151, calcular_adicional_resonancia(l, v239))
             \o si_aplica(1131, calcular_dias_especiales(l, v1242))
             \o si_cumple(1137, aplicar_lavado_uniforme(l))
             \o si_aplica(1167, calcular_jornada_reducida(l, es_guardia_actual))
             \o si_aplica(1416, calcular_jornada_art19(l, v239))
             \o si_aplica(1599, calcular_porcentaje_art19(l, v239))
             \o si_cumple(1673, aplicar_proporcion_lavado(l))
             \o si_aplica(2006, obtener_fecha_fin_contrato(l))
             \o si_cumple(2281, aplicar_no_liquida_plus(l, es_guardia_actual))
             \o si_cumple(426, es_cajero(l))
             \o variables_informativas(l)
             \o (IF es_medico_productividad(l)
                 THEN << <<1740, Num(1, 0)>>, <<1251, Num(1, 0)>>, <<1252, Num(1, 0)>> >>
                 ELSE << >>)

(***************************************************************************)
(* Schedules explored                                                      *)
(***************************************************************************)
\* the largest number of blocks of a schedule
MaxBloques == 2

Lun_Vie == <<0, 1, 2, 3, 4>>
Lun_Sab == <<0, 1, 2, 3, 4, 5>>
Todos == <<0, 1, 2, 3, 4, 5, 6, 7>>

\* the blocks of the schedules explored, by name
Bloques ==
    [LV_12_20 |-> Bloque(Lun_Vie, <<12, 0>>, <<20, 0>>, <<"s","e","m","a","n","a","l">>, 4),
     LV_8_15 |-> Bloque(Lun_Vie, <<8, 0>>, <<15, 0>>, <<"s","e","m","a","n","a","l">>, 4),
     LV_Noche |-> Bloque(Lun_Vie, <<22, 0>>, <<6, 0>>, <<"s","e","m","a","n","a","l">>, 4),
     LV_18_23 |-> Bloque(Lun_Vie, <<18, 0>>, <<23, 0>>, <<"s","e","m","a","n","a","l">>, 4),
     LV_4_8 |-> Bloque(Lun_Vie, <<4, 0>>, <<8, 0>>, <<"s","e","m","a","n","a","l">>, 4),
     Sab_2350_Prop |-> Bloque(<<5>>, <<23, 50>>, <<0, 20>>, <<"p","r","o","p","o","r","c","i","o","n","a","l">>, 3),
     LMM_8_14 |-> Bloque(<<0, 1, 2>>, <<8, 0>>, <<14, 0>>, <<"s","e","m","a","n","a","l">>, 4),
     LMM_8_17 |-> Bloque(<<0, 1, 2>>, <<8, 0>>, <<17, 0>>, <<"s","e","m","a","n","a","l">>, 4),
     Jue_8_17 |-> Bloque(<<3>>, <<8, 0>>, <<17, 0>>, <<"s","e","m","a","n","a","l">>, 4),
     Sab_Mensual |-> Bloque(<<5>>, <<7, 0>>, <<19, 0>>, <<"m","e","n","s","u","a","l">>, 1),
     Sab_Media |-> Bloque(<<5>>, <<8, 0>>, <<8, 30>>, <<"s","e","m","a","n","a","l">>, 4),
     Sab_Prop |-> Bloque(<<5>>, <<9, 0>>, <<13, 0>>, <<"p","r","o","p","o","r","c","i","o","n","a","l">>, 2),
     Sab_Cero |-> Bloque(<<5>>, <<9, 0>>, <<9, 0>>, <<"p","r","o","p","o","r","c","i","o","n","a","l">>, 2),
     SD_Quincenal |-> Bloque(<<5, 6>>, <<8, 0>>, <<20, 0>>, <<"q","u","i","n","c","e","n","a","l">>, 2),
     SD_Noche |-> Bloque(<<5, 6>>, <<20, 0>>, <<8, 0>>, <<"s","e","m","a","n","a","l">>, 4),
     LS_Quincenal |-> Bloque(Lun_Sab, <<8, 0>>, <<14, 0>>, <<"q","u","i","n","c","e","n","a","l">>, 2),
     LMV_Quincenal |-> Bloque(<<0, 2, 4>>, <<8, 15>>, <<15, 30>>, <<"q","u","i","n","c","e","n","a","l">>, 2),
     Todos |-> Bloque(Todos, <<0, 0>>, <<23, 45>>, <<"s","e","m","a","n","a","l">>, 4),
     Todos_21 |-> Bloque(Todos, <<1, 0>>, <<22, 0>>, <<"s","e","m","a","n","a","l">>, 4),
     Anual |-> Bloque(<<0, 1>>, <<8, 0>>, <<14, 0>>, <<"a","n","u","a","l">>, 4),
     LV_8_1136 |-> Bloque(Lun_Vie, <<8, 0>>, <<11, 36>>, <<"s","e","m","a","n","a","l">>, 4),
     JVS_8_14 |-> Bloque(<<3, 4, 5>>, <<8, 0>>, <<14, 0>>, <<"s","e","m","a","n","a","l">>, 4),
     LS_8_14 |-> Bloque(Lun_Sab, <<8, 0>>, <<14, 0>>, <<"s","e","m","a","n","a","l">>, 4),
     LS_8_16 |-> Bloque(Lun_Sab, <<8, 0>>, <<16, 0>>, <<"s","e","m","a","n","a","l">>, 4),
     Sab_8_10 |-> Bloque(<<5>>, <<8, 0>>, <<10, 0>>, <<"s","e","m","a","n","a","l">>, 4),
     SDF_8_14 |-> Bloque(<<5, 6, 7>>, <<8, 0>>, <<14, 0>>, <<"s","e","m","a","n","a","l">>, 4)]

\* the schedules of 1..MaxBloques blocks taken from a pool
HorariosDe(pool) == UNION {[1..n -> pool] : n \in 1..MaxBloques}

\* schedules for the summarizer and the monthly days
PoolResumen ==
    {Bloques.LV_12_20, Bloques.Sab_Mensual, Bloques.LV_Noche, Bloques.Sab_Prop,
     Bloques.Sab_Cero, Bloques.SD_Quincenal, Bloques.LMV_Quincenal, Bloques.Todos,
     Bloques.LV_18_23, Bloques.Sab_Media, Bloques.LV_4_8, Bloques.Sab_2350_Prop}

\* schedules for the guard and night rules: 2 to 6 worked days, weekly and
\* biweekly, with and without night hours
PoolGuardia ==
    {Bloques.SD_Quincenal, Bloques.LS_Quincenal, Bloques.LMM_8_14, Bloques.Jue_8_17,
     Bloques.LV_Noche, Bloques.SD_Noche, Bloques.LV_18_23}

\* schedules for the monthly hours: weekly totals on both sides of 18, 27, 35
\* and 36 hours, up to 168
PoolHoras ==
    {Bloques.LV_8_15, Bloques.Sab_Media, Bloques.LMM_8_17, Bloques.Jue_8_17,
     Bloques.Todos_21}

(***************************************************************************)
(* Records explored                                                        *)
(***************************************************************************)
Legajo(p, bloques) ==
    [id_legajo |-> p.id,
     datos_personales |-> [sede |-> p.sede, puesto |-> p.puesto,
                           sector |-> [principal |-> p.sector, subsector |-> p.subsector]],
     contratacion |-> [categoria |-> p.categoria, tipo |-> p.tipo, fechas |-> [fin |-> p.fin]],
     horario |-> [bloques |-> bloques, resumen |-> None],
     remuneracion |-> [sueldo_base |-> p.sueldo, adicionables |-> p.adicionables]]

PerfilBase ==
    [id |-> 1001, sede |-> Str(<<"C","e","n","t","r","a","l">>), puesto |-> Str(<<"A","d","m","i","n","i","s","t","r","a","t","i","v","o">>),
     sector |-> Str(<<"A","d","m","i","n","i","s","t","r","a","c","i","ó","n">>), subsector |-> None,
     categoria |-> Str(<<"d","c","_","a","d","m","i","n","i","s","t","r","a","t","i","v","o">>), tipo |-> Str(<<"i","n","d","e","t","e","r","m","i","n","a","d","o">>), fin |-> None,
     sueldo |-> None, adicionables |-> None]

\* records for the guard and night rules
SedesGuardia == {Str(<<"C","l","í","n","i","c","a"," ","d","e","l"," ","S","o","l">>), Str(<<"C","D","S">>), Str(<<"C","e","n","t","r","a","l">>)}

AdicionablesGuardia ==
    {None, Str(<<"F","u","l","l"," ","G","u","a","r","d","i","a">>), Str(<<"F","U","L","L","-","G","U","A","R","D","I","A">>), Str(<<"f","u","l","l"," "," "," ","g","u","a","r","d","i","a"," ","+"," ","P","P","R">>),
     Str(<<"F","u","l","l","g","u","a","r","d","i","a">>)}

\* <<categoria, sueldo_base>>
CategoriasGuardia ==
    {<<Str(<<"d","c","_","e","n","f","e","r","m","e","r","i","a">>), None>>, <<Str(<<"D","C","_","T","e","c","n","i","c","o">>), None>>,
     <<Str(<<"f","c","_","p","f","c">>), Num(85000000, 2)>>, <<Str(<<"f","c","_","p","f","c">>), None>>, <<None, None>>,
     <<Str(<<"f","c","_","p","f","c">>), Str(<< >>)>>, <<Str(<<"F","C","_","P","F","C">>), Num(85000000, 2)>>,
     <<Str(<<"F","C","_","P","F","C">>), None>>}

PerfilGuardia(sede, adicionables, cat) ==
    [PerfilBase EXCEPT !.sede = sede, !.adicionables = adicionables,
                       !.puesto = Str(<<"E","n","f","e","r","m","e","r","o">>), !.sector = Str(<<"G","u","a","r","d","i","a">>),
                       !.categoria = cat[1], !.sueldo = cat[2]]

PerfilesGuardia ==
    {PerfilGuardia(s, a, <<Str(<<"d","c","_","e","n","f","e","r","m","e","r","i","a">>), None>>) :
        s \in SedesGuardia, a \in AdicionablesGuardia}
    \cup {PerfilGuardia(s, a, c) : s \in {Str(<<"C","D","S">>), Str(<<"C","e","n","t","r","a","l">>)},
                                   a \in {None, Str(<<"F","u","l","l"," ","G","u","a","r","d","i","a">>)},
                                   c \in CategoriasGuardia}

\* records for the monthly hours
PuestosHoras ==
    {Str(<<"T","E","L","E","F","O","N","I","S","T","A">>), Str(<<"R","e","c","e","p","c","i","o","n","i","s","t","a"," ","d","e"," ","L","a","b","o","r","a","t","o","r","i","o">>),
     Str(<<"T","é","c","n","i","c","o"," ","e","n"," ","P","r","á","c","t","i","c","a","s"," ","C","a","r","d","i","o","l","ó","g","i","c","a","s">>), Str(<<"O","p","e","r","a","r","i","o"," ","d","e"," ","L","o","g","í","s","t","i","c","a">>),
     Str(<<"R","e","c","e","p","c","i","o","n","i","s","t","a">>), Str(<<"A","s","i","s","t","e","n","t","e"," ","T","é","c","n","i","c","o">>), Str(<<"A","u","x","i","l","i","a","r"," ","T","é","c","n","i","c","o">>),
     Str(<<"T","é","c","n","i","c","o"," ","d","e"," ","L","a","b","o","r","a","t","o","r","i","o">>), Str(<<"T","é","c","n","i","c","o"," ","E","x","t","r","a","c","c","i","o","n","i","s","t","a">>), Str(<<"B","i","o","q","u","í","m","i","c","o">>),
     Str(<<"T","é","c","n","i","c","o">>), Str(<<"T","é","c","n","i","c","o"," ","P","i","v","o","t">>), Str(<<"T","é","c","n","i","c","o"," ","d","e"," ","R","e","p","r","o","c","e","s","o">>),
     Str(<<"M","é","d","i","c","o">>), Str(<<"A","d","m","i","n","i","s","t","r","a","t","i","v","o">>)}

SectoresHoras ==
    {Str(<<"C","U","A","T">>), Str(<<"A","t","e","n","c","i","ó","n"," ","a","l"," ","C","l","i","e","n","t","e"," ","L","a","b","o","r","a","t","o","r","i","o">>), Str(<<"L","a","b","o","r","a","t","o","r","i","o">>),
     Str(<<"R","e","s","o","n","a","n","c","i","a"," ","M","a","g","n","é","t","i","c","a">>), Str(<<"A","d","m","i","n","i","s","t","r","a","c","i","ó","n">>)}

PerfilesHoras ==
    {[PerfilBase EXCEPT !.puesto = p, !.sector = s] : p \in PuestosHoras, s \in SectoresHoras}

(***************************************************************************)
(* The pipeline: a row of the workbook becomes a record with its summary   *)
(* (excel_a_json), then the rule engine computes its variables             *)
(* (json_a_excel)                                                          *)
(***************************************************************************)
\* no workbook is open
SinFilas ==
    /\ df = << >>
    /\ index = 0
    /\ stats_filas = stats_filas_iniciales(0)

\* no batch is open: one record goes through the pipeline
SinLote ==
    /\ lote = << >>
    /\ stats = stats_iniciales
    /\ resultados = << >>
    /\ SinFilas

Inicio(legajos) ==
    /\ legajo \in legajos
    /\ variables = << >>
    /\ pc = "fila"
    /\ SinLote

\* procesar_excel_a_json: the summary of the parsed blocks is stored in the record
Resumir ==
    /\ pc = "fila"
    /\ legajo' = [legajo EXCEPT !.horario.resumen = calcular_resumen_horario(legajo.horario.bloques)]
    /\ pc' = "json"
    /\ UNCHANGED <<variables, lote, stats, resultados, df, index, stats_filas>>

\* procesar_archivo_json: the rule engine runs on the record
CalcularVariables ==
    /\ pc = "json"
    /\ variables' = calcular_variables(legajo)
    /\ pc' = "calculado"
    /\ UNCHANGED <<legajo, lote, stats, resultados, df, index, stats_filas>>

Next == Resumir \/ CalcularVariables

\* schedules of every shape under one profile
Init == Inicio({Legajo(PerfilBase, b) : b \in HorariosDe(PoolResumen)})

Spec == Init /\ [][Next]_vars

\* guard and night rules
InitGuardia == Inicio({Legajo(p, b) : p \in PerfilesGuardia, b \in HorariosDe(PoolGuardia)})

SpecGuardia == InitGuardia /\ [][Next]_vars

\* monthly hours
InitHoras == Inicio({Legajo(p, b) : p \in PerfilesHoras, b \in HorariosDe(PoolHoras)})

SpecHoras == InitHoras /\ [][Next]_vars

(***************************************************************************)
(* The rule engine alone: json_a_excel reads a JSON file that need not     *)
(* come from excel_a_json.  The block list may be empty or hold incomplete *)
(* blocks or a periodicity the parser never writes, and                    *)
(* total_horas_semanales may be any JSON value.                            *)
(***************************************************************************)
\* the block without one of its keys
SinClave(b, k) == [b EXCEPT !.claves = @ \ {k}]

PoolJson ==
    {Bloques.LV_12_20, Bloques.Sab_Mensual, Bloques.Sab_Prop, Bloques.Sab_Cero,
     Bloques.Anual, Bloques.SD_Quincenal,
     SinClave(Bloques.LV_12_20, "dias_semana"), SinClave(Bloques.Sab_Mensual, "hora_inicio"),
     SinClave(Bloques.LV_Noche, "hora_fin")}

\* the schedules of 0..MaxBloques blocks
HorariosJson == {<< >>} \cup HorariosDe(PoolJson)

\* values of total_horas_semanales other than the one the summarizer wrote
TotalesJson ==
    {Ausente, None, Str(<<"c","u","a","r","e","n","t","a">>), Str(<<" ","4","0"," ">>), NaN, Num(-100, 2), Num(0, 2),
     Num(16800, 2), Num(16801, 2), Num(20000, 2)}

\* the record as it stands in the JSON file
LegajoJson(p, bloques, total) ==
    LET resumen == calcular_resumen_horario(bloques)
    IN  [Legajo(p, bloques) EXCEPT !.horario.resumen =
            [resumen EXCEPT !.total_horas_semanales = total]]

\* a record whose extras name the voluntary additional, with an empty, an
\* incomplete, a day, an evening and a night schedule
PerfilVoluntario ==
    [PerfilBase EXCEPT !.adicionables = Str(<<"A","d","i","c","i","o","n","a","l"," ","V","o","l","u","n","t","a","r","i","o"," ","E","m","p","r","e","s","a">>)]

HorariosVoluntario ==
    {<< >>, <<SinClave(Bloques.LV_Noche, "hora_fin")>>, <<Bloques.LV_12_20>>,
     <<Bloques.LV_18_23>>, <<Bloques.LV_Noche>>}

InitJson ==
    /\ \/ \E b \in HorariosJson :
             \E t \in TotalesJson \cup {calcular_resumen_horario(b).total_horas_semanales} :
                legajo = LegajoJson(PerfilBase, b, t)
       \/ \E b \in HorariosVoluntario :
             legajo = LegajoJson(PerfilVoluntario, b,
                                 calcular_resumen_horario(b).total_horas_semanales)
    /\ variables = << >>
    /\ pc = "json"
    /\ SinLote

NextJson == CalcularVariables

SpecJson == InitJson /\ [][NextJson]_vars
(***************************************************************************)
(* Records for the reduced schedule (1167): 18 weekly hours on             *)
(* {Mon,Tue,Wed}, on Mon..Fri and on {Thu,Fri,Sat}, 35 hours, half hours   *)
(* around them and totals above 168; positions and sectors of every row of *)
(* the floor table; guards and the fixed-salary category                   *)
(***************************************************************************)
PoolJornada ==
    {Bloques.LV_8_15, Bloques.LMM_8_14, Bloques.LV_8_1136, Bloques.JVS_8_14,
     Bloques.Sab_Media, Bloques.Todos_21}

PuestosJornada ==
    {Str(<<"A","d","m","i","n","i","s","t","r","a","t","i","v","o">>), Str(<<"A","s","i","s","t","e","n","t","e"," ","T","é","c","n","i","c","o">>), Str(<<"T","E","L","E","F","O","N","I","S","T","A">>),
     Str(<<"B","i","o","q","u","í","m","i","c","o">>), None}

SectoresJornada ==
    {Str(<<"A","d","m","i","n","i","s","t","r","a","c","i","ó","n">>), Str(<<"L","a","b","o","r","a","t","o","r","i","o">>), Str(<<"M","e","d","i","c","i","n","a"," ","N","u","c","l","e","a","r">>),
     Str(<<"R","e","s","o","n","a","n","c","i","a"," ","M","a","g","n","é","t","i","c","a">>), None}

PerfilesJornada ==
    {[PerfilBase EXCEPT !.puesto = p, !.sector = s] : p \in PuestosJornada, s \in SectoresJornada}
    \cup {[PerfilBase EXCEPT !.categoria = c] : c \in {Str(<<"f","c","_","p","f","c">>), Str(<<"P","F","C">>), Str(<<"F","C"," ","P","F","C">>), None}}
    \cup {[PerfilBase EXCEPT !.sede = Str(<<"C","D","S">>), !.adicionables = Str(<<"F","u","l","l"," ","G","u","a","r","d","i","a">>)]}

InitJornada == Inicio({Legajo(p, b) : p \in PerfilesJornada, b \in HorariosDe(PoolJornada)})

SpecJornada == InitJornada /\ [][Next]_vars

(***************************************************************************)
(* Records for the art. 19 percentage (1599), the special days (1131) and  *)
(* the resonance table (1151): weekly totals of 35, 36, 36.5, 37, 38, 48   *)
(* and 50 hours, the day sets {Mon,Tue,Wed} and {Sat,Sun,Holiday}, weeks   *)
(* with and without the holiday, below and above 22 monthly days           *)
(***************************************************************************)
PoolReglas ==
    {Bloques.LV_8_15, Bloques.LS_8_14, Bloques.LS_8_16, Bloques.LMM_8_14,
     Bloques.SDF_8_14, Bloques.Sab_8_10, Bloques.Sab_Media}

PerfilesReglas ==
    {[PerfilBase EXCEPT !.puesto = p, !.sector = s] :
        p \in {Str(<<"B","i","o","q","u","í","m","i","c","o">>), Str(<<"E","x","t","r","a","c","c","i","o","n","i","s","t","a">>), Str(<<"T","é","c","n","i","c","o"," ","E","x","t","r","a","c","c","i","o","n","i","s","t","a">>),
               Str(<<"A","d","m","i","n","i","s","t","r","a","t","i","v","o">>)},
        s \in {Str(<<"L","a","b","o","r","a","t","o","r","i","o">>), Str(<<"L","a","b","o","r","a","t","o","r","i","o"," ","C","l","í","n","i","c","o">>)}}
    \cup {[PerfilBase EXCEPT !.puesto = Str(<<"B","i","o","q","u","í","m","i","c","o">>), !.sector = Str(<<"L","a","b","o","r","a","t","o","r","i","o">>),
                             !.categoria = c] :
             c \in {Str(<<"D","C","_","L","a","b","o","r","a","t","o","r","i","o">>), Str(<<"f","c","_","j","e","r","a","r","q","u","i","c","o">>), None}}
    \cup {[PerfilBase EXCEPT !.puesto = p] :
             p \in {Str(<<"M","é","d","i","c","o">>), Str(<<"O","d","o","n","t","ó","l","o","g","o","/","a">>), Str(<<"A","d","m","i","n","i","s","t","r","a","t","i","v","o">>)}}
    \cup {[PerfilBase EXCEPT !.puesto = p, !.sector = s] :
             p \in {Str(<<"T","é","c","n","i","c","o">>), Str(<<"T","é","c","n","i","c","o"," ","d","e"," ","R","e","p","r","o","c","e","s","o">>), Str(<<"A","d","m","i","n","i","s","t","r","a","t","i","v","o">>)},
             s \in {Str(<<"R","e","s","o","n","a","n","c","i","a"," ","M","a","g","n","é","t","i","c","a">>), Str(<<"T","o","m","o","g","r","a","f","í","a"," ","C","o","m","p","u","t","a","d","a">>)}}

InitReglas == Inicio({Legajo(p, b) : p \in PerfilesReglas, b \in HorariosDe(PoolReglas)})

SpecReglas == InitReglas /\ [][Next]_vars

(***************************************************************************)
(* parse_schedule_string (excel_a_json): the blocks built from the matches *)
(* of the schedule pattern.  A match is represented by its groups: the     *)
(* words of its day phrase (day_words: the tokens re.findall takes from    *)
(* group 1, without 'y' and 'de'; a token is a run of letters, two runs    *)
(* joined by a hyphen, or a run of digits) and the texts of its two times, *)
(* each of the form \d{1,2}(?:[:\.]\d{2})? as the pattern captures them.    *)
(***************************************************************************)
\* str.split(sep) for a one-character separator
RECURSIVE split(_, _)
split(s, sep) ==
    IF sep \notin Range(s) THEN <<s>>
    ELSE LET i == CHOOSE k \in DOMAIN s : s[k] = sep /\ \A j \in 1..(k - 1) : s[j] # sep
         IN  <<SubSeq(s, 1, i - 1)>> \o split(SubSeq(s, i + 1, Len(s)), sep)

\* str.zfill(n) of a text without sign
RECURSIVE zfill(_, _)
zfill(s, n) == IF Len(s) >= n THEN s ELSE zfill(<<"0">> \o s, n)

\* str.ljust(n, c)
RECURSIVE ljust(_, _, _)
ljust(s, n, c) == IF Len(s) >= n THEN s ELSE ljust(Append(s, c), n, c)

format_time_to_hhmm(time_str) ==
    LET t == replace(time_str, <<".">>, <<":">>)
    IN  IF ":" \in Range(t)
        THEN LET parts == split(t, ":")
                 hours == zfill(parts[1], 2)
                 minutes == SubSeq(ljust(parts[2], 2, "0"), 1, 2)
             IN  hours \o <<":">> \o minutes
        ELSE zfill(t, 2) \o <<":","0","0">>

\* the order of the characters of a time: the digits, then the colon
ord(c) == IF c = ":" THEN 58 ELSE 48 + (CHOOSE d \in 0..9 : ToString(d) = c)

\* a > b for two str
RECURSIVE str_mayor(_, _)
str_mayor(a, b) ==
    IF a = << >> THEN FALSE
    ELSE IF b = << >> THEN TRUE
    ELSE IF Head(a) # Head(b) THEN ord(Head(a)) > ord(Head(b))
    ELSE str_mayor(Tail(a), Tail(b))

\* str.isdigit()
isdigit(s) == s # << >> /\ \A i \in DOMAIN s : s[i] \in Digitos

\* int(s) of a text of digits
RECURSIVE int(_)
int(s) ==
    IF s = << >> THEN 0
    ELSE int(SubSeq(s, 1, Len(s) - 1)) * 10 + (CHOOSE d \in 0..9 : ToString(d) = s[Len(s)])

\* the entries of DAY_MAP whose key a word of a day phrase can equal
DAY_MAP ==
    << <<<<"l","u","n","e","s">>, Num(0, 0)>>, <<<<"m","a","r","t","e","s">>, Num(1, 0)>>, <<<<"m","i","e","r","c","o","l","e","s">>, Num(2, 0)>>,
       <<<<"m","i","é","r","c","o","l","e","s">>, Num(2, 0)>>, <<<<"j","u","e","v","e","s">>, Num(3, 0)>>, <<<<"v","i","e","r","n","e","s">>, Num(4, 0)>>,
       <<<<"s","á","b","a","d","o">>, Num(5, 0)>>, <<<<"s","a","b","a","d","o">>, Num(5, 0)>>, <<<<"d","o","m","i","n","g","o">>, Num(6, 0)>>,
       <<<<"l","u","n">>, Num(0, 0)>>, <<<<"m","a","r">>, Num(1, 0)>>, <<<<"m","i","e">>, Num(2, 0)>>,
       <<<<"j","u","e">>, Num(3, 0)>>, <<<<"v","i","e">>, Num(4, 0)>>, <<<<"s","a","b">>, Num(5, 0)>>,
       <<<<"d","o","m">>, Num(6, 0)>>,
       <<<<"l">>, Num(0, 0)>>, <<<<"m">>, Num(1, 0)>>, <<<<"x">>, Num(2, 0)>>, <<<<"j">>, Num(3, 0)>>,
       <<<<"v">>, Num(4, 0)>>, <<<<"s">>, Num(5, 0)>>, <<<<"d">>, Num(6, 0)>>,
       <<<<"s","á","b","a","d","o","s">>, Num(5, 0)>>, <<<<"s","a","b","a","d","o","s">>, Num(5, 0)>>, <<<<"d","o","m","i","n","g","o","s">>, Num(6, 0)>>,
       <<<<"f","e","r","i","a","d","o">>, Num(7, 0)>>, <<<<"f","e","r","i","a","d","o","s">>, Num(7, 0)>>,
       <<<<"s","a","f","e">>, Str(<<"s","á","b","a","d","o"," ","y"," ","f","e","r","i","a","d","o">>)>>, <<<<"d","o","f","e">>, Str(<<"d","o","m","i","n","g","o"," ","y"," ","f","e","r","i","a","d","o">>)>>,
       <<<<"s","a","d","o","f","e">>, Str(<<"s","á","b","a","d","o"," ","y"," ","d","o","m","i","n","g","o"," ","y"," ","f","e","r","i","a","d","o">>)>>,
       <<<<"s","a","d","o">>, Str(<<"s","á","b","a","d","o"," ","y"," ","d","o","m","i","n","g","o">>)>>, <<<<"s","a","b","d","o","m">>, Str(<<"s","á","b","a","d","o"," ","y"," ","d","o","m","i","n","g","o">>)>>,
       <<<<"s","á","b">>, Num(5, 0)>> >>

\* DAY_MAP.get(word)
DAY_MAP_get(word) ==
    IF \E i \in DOMAIN DAY_MAP : DAY_MAP[i][1] = word
    THEN DAY_MAP[CHOOSE i \in DOMAIN DAY_MAP : DAY_MAP[i][1] = word][2]
    ELSE None

\* [w.strip() for w in idx.split('y') if w.strip()]
subwords_de(idx) ==
    LET partes == split(idx, "y")
        limpias == [i \in DOMAIN partes |-> strip(partes[i])]
    IN  SelectSeq(limpias, LAMBDA w : w # << >>)

\* day_indices.update(range(min(start_idx, end_idx), max(start_idx, end_idx) + 1));
\* an index that is a str raises TypeError
con_rango(acc, start_idx, end_idx) ==
    IF start_idx.tipo = "str" \/ end_idx.tipo = "str" THEN [acc EXCEPT !.error = TRUE]
    ELSE [acc EXCEPT !.dias = @ \cup (Min2(start_idx.num, end_idx.num)
                                        .. Max2(start_idx.num, end_idx.num))]

\* the while loop of get_day_indices from position i (counted from 1); acc
\* holds day_indices, proportional_data[5] (0 while the key is absent) and
\* whether an exception was raised.  A word of a day phrase holds no space,
\* so the branch for ' y ' in word is not taken.
RECURSIVE recorrer_day_words(_, _, _)
recorrer_day_words(day_words, i, acc) ==
    IF i > Len(day_words) \/ acc.error THEN acc
    ELSE LET word == lower(strip(day_words[i]))
             idx == DAY_MAP_get(word)
         IN  IF /\ word \in {<<"s","á","b","a","d","o">>, <<"s","a","b","a","d","o">>, <<"s","á","b","a","d","o","s">>}
                /\ i + 1 <= Len(day_words)
                /\ isdigit(day_words[i + 1])
             THEN LET num == int(day_words[i + 1])
                  IN  recorrer_day_words(day_words, i + 2,
                          IF 1 <= num /\ num <= 4
                          THEN [acc EXCEPT !.proporcional = num, !.dias = @ \cup {5}]
                          ELSE acc)
             ELSE IF "-" \in Range(word)
             THEN LET parts == split(word, "-")
                      start_idx == DAY_MAP_get(parts[1])
                  IN  recorrer_day_words(day_words, i + 1,
                          IF Len(parts) = 2 /\ ~es_None(start_idx)
                                            /\ ~es_None(DAY_MAP_get(parts[2]))
                          THEN con_rango(acc, start_idx, DAY_MAP_get(parts[2]))
                          ELSE acc)
             ELSE IF word = <<"a">> /\ i > 1 /\ i < Len(day_words)
             THEN LET start_idx == DAY_MAP_get(day_words[i - 1])
                      end_idx == DAY_MAP_get(day_words[i + 1])
                  IN  recorrer_day_words(day_words, i + 1,
                          IF ~es_None(start_idx) /\ ~es_None(end_idx)
                          THEN con_rango(acc, start_idx, end_idx)
                          ELSE acc)
             ELSE IF ~es_None(idx)
             THEN recorrer_day_words(day_words, i + 1,
                      IF idx.tipo = "str" /\ "y" \in Range(idx.txt)
                      THEN LET sub == recorrer_day_words(subwords_de(idx.txt), 1,
                                          [dias |-> {}, proporcional |-> 0, error |-> FALSE])
                           IN  [acc EXCEPT !.dias = @ \cup sub.dias, !.error = sub.error]
                      ELSE [acc EXCEPT !.dias = @ \cup {idx.num}])
             ELSE recorrer_day_words(day_words, i + 1, acc)

\* (sorted(list(day_indices)), proportional_data), or the exception raised
get_day_indices(day_words) ==
    LET acc == recorrer_day_words(day_words, 1,
                   [dias |-> {}, proporcional |-> 0, error |-> FALSE])
    IN  [dias |-> sorted(acc.dias), proporcional |-> acc.proporcional, error |-> acc.error]

\* the number of digits re.match(r'(\d+)[\s]*s', w) takes for group 1, or 0
\* when w does not match
RECURSIVE digitos_iniciales(_)
digitos_iniciales(w) ==
    IF w # << >> /\ Head(w) \in Digitos THEN 1 + digitos_iniciales(Tail(w)) ELSE 0

marca_de_sabados(w) ==
    LET n == digitos_iniciales(w)
        resto == lstrip(SubSeq(w, n + 1, Len(w)))
    IN  IF n > 0 /\ resto # << >> /\ Head(resto) \in {"s", "S"} THEN n ELSE 0

\* the cascade "Detectar periodicidad"; factor4 is four times the factor
periodicity_de(day_words, proporcional) ==
    IF proporcional # 0
    THEN [tipo |-> <<"p","r","o","p","o","r","c","i","o","n","a","l">>, factor4 |-> proporcional]
    ELSE IF \E i \in DOMAIN day_words : marca_de_sabados(day_words[i]) > 0
    THEN LET i == CHOOSE k \in DOMAIN day_words :
                      /\ marca_de_sabados(day_words[k]) > 0
                      /\ \A j \in 1..(k - 1) : marca_de_sabados(day_words[j]) = 0
             w == day_words[i]
         IN  [tipo |-> <<"m","e","n","s","u","a","l">>, factor4 |-> int(SubSeq(w, 1, marca_de_sabados(w)))]
    ELSE IF \E i \in DOMAIN day_words : day_words[i] \in {<<"m","e","n","s","u","a","l">>, <<"m","e","s">>}
    THEN [tipo |-> <<"m","e","n","s","u","a","l">>, factor4 |-> 1]
    ELSE IF \E i \in DOMAIN day_words : day_words[i] \in {<<"p","o","r">>, <<"m","e","d","i","o">>}
    THEN [tipo |-> <<"q","u","i","n","c","e","n","a","l">>, factor4 |-> 2]
    ELSE [tipo |-> <<"s","e","m","a","n","a","l">>, factor4 |-> 4]

\* block_data of one match; hora_inicio and hora_fin are the formatted texts
block_data(m) ==
    LET indices == get_day_indices(m.day_words)
        start_time == format_time_to_hhmm(m.inicio)
        end_time == format_time_to_hhmm(m.fin)
    IN  [dias_semana |-> indices.dias, hora_inicio |-> start_time, hora_fin |-> end_time,
         periodicidad |-> periodicity_de(m.day_words, indices.proporcional),
         cruza_dia |-> str_mayor(start_time, end_time),
         claves |-> ClavesBloque]

\* normalized_blocks: a match whose day phrase resolves to no day is skipped,
\* and so is one whose day phrase raises
RECURSIVE parse_schedule_string(_)
parse_schedule_string(matches) ==
    IF matches = << >> THEN << >>
    ELSE LET indices == get_day_indices(Head(matches).day_words)
         IN  IF indices.error \/ indices.dias = << >>
             THEN parse_schedule_string(Tail(matches))
             ELSE <<block_data(Head(matches))>> \o parse_schedule_string(Tail(matches))

\* datetime.strptime(t, '%H:%M').time() as <<hour, minute>>, or << >> for ValueError
strptime_HM(t) ==
    LET parts == split(t, ":")
    IN  IF /\ Len(parts) = 2
           /\ \A i \in 1..2 : isdigit(parts[i]) /\ Len(parts[i]) <= 2
           /\ int(parts[1]) <= 23
           /\ int(parts[2]) <= 59
        THEN <<int(parts[1]), int(parts[2])>>
        ELSE << >>

\* the blocks calcular_resumen_horario gets past strptime with, their times
\* read; a block whose time raises ValueError is skipped by the except clause
bloques_con_hora(bloques) ==
    LET legibles == SelectSeq(bloques, LAMBDA b : /\ strptime_HM(b.hora_inicio) # << >>
                                                  /\ strptime_HM(b.hora_fin) # << >>)
    IN  [i \in DOMAIN legibles |->
            [legibles[i] EXCEPT !.hora_inicio = strptime_HM(@),
                                !.hora_fin = strptime_HM(@)]]

\* the texts of the times explored: one and two digits, colon and dot, hours
\* up to 23 and above, minutes up to 59 and above
TextosDeHora == {<<"8">>, <<"0","8",":","0","0">>, <<"7",".","3","0">>, <<"2","3",":","5","9">>, <<"2","4">>, <<"2","5">>, <<"8",":","7","5">>, <<"1","2",":","6","0">>}

Coincidencia(day_words, inicio, fin) ==
    [day_words |-> day_words, inicio |-> inicio, fin |-> fin]

\* day phrases: a range, no day word, markers of every periodicity alone and
\* together, a Saturday count in and out of 1..4, a compound entry, a range
\* over a compound entry
PalabrasDeDias ==
    {<<<<"l","u","n","e","s","-","v","i","e","r","n","e","s">>>>, << >>, <<<<"l","u","n","e","s">>, <<"a">>, <<"s","á","b","a","d","o">>>>,
     <<<<"s","á","b","a","d","o">>, <<"p","o","r">>, <<"m","e","d","i","o">>>>, <<<<"s","á","b","a","d","o">>, <<"m","e","n","s","u","a","l">>>>,
     <<<<"s","á","b","a","d","o">>, <<"p","o","r">>, <<"m","e","d","i","o">>, <<"m","e","n","s","u","a","l">>>>, <<<<"u","n">>, <<"s","a","b","a","d","o">>, <<"a","l">>, <<"m","e","s">>>>,
     <<<<"s","á","b","a","d","o">>, <<"2">>>>, <<<<"s","á","b","a","d","o">>, <<"2">>, <<"p","o","r">>, <<"m","e","d","i","o">>>>,
     <<<<"s","a","b","a","d","o">>, <<"3">>, <<"m","e","n","s","u","a","l">>>>, <<<<"s","a","b","a","d","o","s">>, <<"2">>>>, <<<<"s","á","b","a","d","o","s">>, <<"5">>>>,
     <<<<"s","a","d","o","f","e">>>>, <<<<"s","a","f","e","-","l","u","n","e","s">>>>}

\* one match with every pair of texts, alone or followed by a Saturday match,
\* and one match of every day phrase
Coincidencias ==
    LET primeras == {Coincidencia(d, i, f) :
                        d \in {<<<<"l","u","n","e","s","-","v","i","e","r","n","e","s">>>>, << >>},
                        i \in TextosDeHora, f \in TextosDeHora}
        segundas == {Coincidencia(<<<<"s","a","b","a","d","o">>>>, <<"9">>, <<"1","3">>),
                     Coincidencia(<<<<"s","a","b","a","d","o">>>>, <<"3","0">>, <<"9","9">>)}
        frases == {Coincidencia(d, h[1], h[2]) :
                        d \in PalabrasDeDias,
                        h \in {<<<<"8">>, <<"1","2">>>>, <<<<"2","2">>, <<"6">>>>, <<<<"8">>, <<"8">>>>}}
    IN  {<<m>> : m \in primeras \cup frases} \cup {<<m, n>> : m \in primeras, n \in segundas}

\* the row of the workbook before its schedule is parsed
InitParser ==
    /\ \E ms \in Coincidencias :
          legajo = [Legajo(PerfilBase, << >>) EXCEPT
                       !.horario = [matches |-> ms, bloques |-> << >>, resumen |-> None]]
    /\ variables = << >>
    /\ pc = "texto"
    /\ SinLote

\* procesar_excel_a_json: the blocks of the schedule and their summary are
\* stored in the record; a schedule without blocks is an error of parsing
ParsearHorario ==
    /\ pc = "texto"
    /\ LET normalized_schedule == parse_schedule_string(legajo.horario.matches)
       IN  IF normalized_schedule = << >>
           THEN /\ pc' = "error_parsing"
                /\ UNCHANGED legajo
           ELSE /\ pc' = "bloques"
                /\ legajo' = [legajo EXCEPT
                       !.horario.bloques = normalized_schedule,
                       !.horario.resumen =
                           calcular_resumen_horario(bloques_con_hora(normalized_schedule))]
    /\ UNCHANGED <<variables, lote, stats, resultados, df, index, stats_filas>>

NextParser == ParsearHorario

SpecParser == InitParser /\ [][NextParser]_vars
(***************************************************************************)
(* The text normalizer of excel_a_json: clean_and_standardize followed by  *)
(* apply_equivalences with EQUIVALENCIAS, as parse_schedule_string calls   *)
(* them.  The regular expressions are matched from left to right, without  *)
(* overlap, as re.sub does.                                                *)
(***************************************************************************)
\* \w
es_palabra(c) ==
    c \in Range(Minusculas) \cup Range(Mayusculas) \cup Digitos \cup {"_"}

\* \b between text[i - 1] and text[i]
limite(text, i) ==
    (i > 1 /\ es_palabra(text[i - 1])) # (i <= Len(text) /\ es_palabra(text[i]))

\* the first position from i on that holds no whitespace
RECURSIVE saltar_espacios(_, _)
saltar_espacios(text, i) ==
    IF i <= Len(text) /\ text[i] \in Espacios THEN saltar_espacios(text, i + 1) ELSE i

\* the literal w, in any case, is at position i
esta_en(text, i, w) ==
    /\ i + Len(w) - 1 <= Len(text)
    /\ lower1(text[i]) = w[1]
    /\ lower(SubSeq(text, i, i + Len(w) - 1)) = w

\* re.sub(fin, new, text): fin(text, i) is the position after the match that
\* starts at i, or 0; new(text, i) is its replacement
RECURSIVE re_sub(_, _, _, _)
re_sub(fin(_, _), new(_, _), text, i) ==
    IF i > Len(text) THEN << >>
    ELSE IF fin(text, i) > i
         THEN new(text, i) \o re_sub(fin, new, text, fin(text, i))
         ELSE <<text[i]>> \o re_sub(fin, new, text, i + 1)

\* r'\s*(?:hs|hrs)\b'
fin_hs(text, i) ==
    LET j == saltar_espacios(text, i)
    IN  IF esta_en(text, j, <<"h","s">>) /\ limite(text, j + 2) THEN j + 2
        ELSE IF esta_en(text, j, <<"h","r","s">>) /\ limite(text, j + 3) THEN j + 3
        ELSE 0

clean_and_standardize(text) ==
    LET minusculas == strip(lower(text))
        vacio(t, i) == << >>
        sin_hs == re_sub(fin_hs, vacio, minusculas, 1)
    IN  colapsar_espacios(replace(sin_hs, <<",">>, <<" ","y"," ">>))

PLACEHOLDER_XMEDIO == <<"_","_","_","X","M","E","D","I","O","_","_","_">>
PLACEHOLDER_PORMEDIO == <<"_","_","_","P","O","R","M","E","D","I","O","_","_","_">>

\* r'\b' + w1 + r'\s+' + w2 + r'\b'
fin_dos_palabras(text, i, w1, w2) ==
    LET j == saltar_espacios(text, i + Len(w1))
    IN  IF /\ limite(text, i)
           /\ esta_en(text, i, w1)
           /\ j > i + Len(w1)
           /\ esta_en(text, j, w2)
           /\ limite(text, j + Len(w2))
        THEN j + Len(w2) ELSE 0

\* r'[\.\-]?'
saltar_punto(text, i) == IF i <= Len(text) /\ text[i] \in {".", "-"} THEN i + 1 ELSE i

\* r'\b(?:l\s*[\.\-]?\s*a\s*[\.\-]?\s*v)\b'
fin_lav(text, i) ==
    LET a == saltar_espacios(text, saltar_punto(text, saltar_espacios(text, i + 1)))
        v == saltar_espacios(text, saltar_punto(text, saltar_espacios(text, a + 1)))
    IN  IF /\ limite(text, i)
           /\ esta_en(text, i, <<"l">>)
           /\ esta_en(text, a, <<"a">>)
           /\ esta_en(text, v, <<"v">>)
           /\ limite(text, v + 1)
        THEN v + 1 ELSE 0

DIAS_AL_MES ==
    <<<<"l","u","n","e","s">>, <<"m","a","r","t","e","s">>, <<"m","i","é","r","c","o","l","e","s">>, <<"m","i","e","r","c","o","l","e","s">>, <<"j","u","e","v","e","s">>, <<"v","i","e","r","n","e","s">>, <<"s","á","b","a","d","o">>,
      <<"s","a","b","a","d","o">>, <<"d","o","m","i","n","g","o">>>>

\* the first position from i on that holds no digit
RECURSIVE saltar_digitos(_, _)
saltar_digitos(text, i) ==
    IF i <= Len(text) /\ text[i] \in Digitos THEN saltar_digitos(text, i + 1) ELSE i

\* r'(\d+)\s*(lunes|...|domingo)\s+al\s+mes': <<position after the match, start
\* of the day name, its length>>, or <<0, 0, 0>>
coincidencia_al_mes(text, i) ==
    LET d == saltar_espacios(text, saltar_digitos(text, i))
        nombres == {k \in DOMAIN DIAS_AL_MES : esta_en(text, d, DIAS_AL_MES[k])}
    IN  IF saltar_digitos(text, i) = i \/ nombres = {} THEN <<0, 0, 0>>
        ELSE LET n == Len(DIAS_AL_MES[CHOOSE k \in nombres : TRUE])
                 al == saltar_espacios(text, d + n)
                 mes == saltar_espacios(text, al + 2)
             IN  IF /\ al > d + n
                    /\ esta_en(text, al, <<"a","l">>)
                    /\ mes > al + 2
                    /\ esta_en(text, mes, <<"m","e","s">>)
                 THEN <<mes + 3, d, n>> ELSE <<0, 0, 0>>

\* r'\s+y\s+(?=[a-záéíóúñ])'
fin_conector(text, i) ==
    LET y == saltar_espacios(text, i)
        letra == saltar_espacios(text, y + 1)
    IN  IF /\ y > i
           /\ esta_en(text, y, <<"y">>)
           /\ letra > y + 1
           /\ letra <= Len(text)
           /\ lower1(text[letra]) \in LetrasAZ \cup {"á", "é", "í", "ó", "ú", "ñ"}
        THEN letra ELSE 0

\* EQUIVALENCIAS, EQUIVALENCIAS_EXTRA and EQUIVALENCIAS_MENSUALES merged, from
\* the longest key to the shortest
EQUIVALENCIAS ==
    <<<<<<"l","u","n","e","s",","," ","m","a","r","t","e","s"," ","y"," ","m","i","e","r","c","o","l","e","s">>, <<"l","u","n","e","s"," ","y"," ","m","a","r","t","e","s"," ","y"," ","m","i","é","r","c","o","l","e","s">>>>,
     <<<<"l","u","n","e","s"," ","m","a","r","t","e","s"," ","y"," ","m","i","e","r","c","o","l","e","s">>, <<"l","u","n","e","s"," ","y"," ","m","a","r","t","e","s"," ","y"," ","m","i","é","r","c","o","l","e","s">>>>,
     <<<<"s","á","b","a","d","o"," ","d","o","m","i","n","g","o"," ","f","e","r","i","a","d","o">>, <<"s","á","b","a","d","o"," ","y"," ","d","o","m","i","n","g","o"," ","y"," ","f","e","r","i","a","d","o">>>>,
     <<<<"l","u","n","e","s"," ","a"," ","m","i","e","r","c","o","l","e","s">>, <<"l","u","n","e","s","-","m","i","é","r","c","o","l","e","s">>>>,
     <<<<"s","a","b","a","d","o","s"," ","p","o","r"," ","m","e","d","i","o">>, <<"s","á","b","a","d","o"," ","p","o","r"," ","m","e","d","i","o">>>>,
     <<<<"d","o","m","i","n","g","o"," ","p","o","r"," ","m","e","d","i","o">>, <<"d","o","m","i","n","g","o"," ","p","o","r"," ","m","e","d","i","o">>>>,
     <<<<"l","u","n","e","s"," ","a"," ","d","o","m","i","n","g","o","s">>, <<"l","u","n","e","s","-","d","o","m","i","n","g","o">>>>,
     <<<<"m","a","r","t","e","s"," ","a"," ","v","i","e","r","n","e","s">>, <<"m","a","r","t","e","s","-","v","i","e","r","n","e","s">>>>,
     <<<<"s","á","b","a","d","o"," ","p","o","r"," ","m","e","d","i","o">>, <<"s","á","b","a","d","o"," ","p","o","r"," ","m","e","d","i","o">>>>,
     <<<<"2"," ","s","á","b","a","d","o","s"," ","a","l"," ","m","e","s">>, <<"s","á","b","a","d","o","s"," ","2">>>>,
     <<<<"3"," ","s","á","b","a","d","o","s"," ","a","l"," ","m","e","s">>, <<"s","á","b","a","d","o","s"," ","3">>>>,
     <<<<"2"," ","s","a","b","a","d","o","s"," ","a","l"," ","m","e","s">>, <<"s","a","b","a","d","o","s"," ","2">>>>,
     <<<<"3"," ","s","a","b","a","d","o","s"," ","a","l"," ","m","e","s">>, <<"s","a","b","a","d","o","s"," ","3">>>>,
     <<<<"l","u","n","e","s"," ","a"," ","v","i","e","r","n","e","s">>, <<"l","u","n","e","s","-","v","i","e","r","n","e","s">>>>,
     <<<<"l","u","n","e","s"," ","a"," ","s","a","b","a","d","o","s">>, <<"l","u","n","e","s","-","s","a","b","a","d","o">>>>,
     <<<<"l","u","n","e","s"," ","a"," ","s","á","b","a","d","o","s">>, <<"l","u","n","e","s","-","s","a","b","a","d","o">>>>,
     <<<<"l","u","n","e","s"," ","a"," ","d","o","m","i","n","g","o">>, <<"l","u","n","e","s","-","d","o","m","i","n","g","o">>>>,
     <<<<"d","o","m","i","n","g","o"," ","f","e","r","i","a","d","o">>, <<"d","o","m","i","n","g","o"," ","y"," ","f","e","r","i","a","d","o">>>>,
     <<<<"1"," ","s","á","b","a","d","o"," ","a","l"," ","m","e","s">>, <<"s","á","b","a","d","o","s"," ","1">>>>,
     <<<<"1"," ","s","a","b","a","d","o"," ","a","l"," ","m","e","s">>, <<"s","a","b","a","d","o","s"," ","1">>>>,
     <<<<"l","u","n","e","s"," ","a"," ","s","a","b","a","d","o">>, <<"l","u","n","e","s","-","s","a","b","a","d","o">>>>,
     <<<<"l","u","n","e","s"," ","a"," ","j","u","e","v","e","s">>, <<"l","u","n","e","s","-","j","u","e","v","e","s">>>>,
     <<<<"l","u","n","e","s"," ","a"," ","m","a","r","t","e","s">>, <<"l","u","n","e","s","-","m","a","r","t","e","s">>>>,
     <<<<"s","á","b","a","d","o"," ","f","e","r","i","a","d","o">>, <<"s","á","b","a","d","o"," ","y"," ","f","e","r","i","a","d","o">>>>,
     <<<<"1"," ","s","a","b"," ","a","l"," ","m","e","s">>, <<"s","a","b","a","d","o","s"," ","1">>>>,
     <<<<"2"," ","s","a","b"," ","a","l"," ","m","e","s">>, <<"s","a","b","a","d","o","s"," ","2">>>>,
     <<<<"3"," ","s","a","b"," ","a","l"," ","m","e","s">>, <<"s","a","b","a","d","o","s"," ","3">>>>,
     <<<<"l","u","n","e","s"," ","a"," ","s","a","b">>, <<"l","u","n","e","s","-","s","a","b","a","d","o">>>>,
     <<<<"1"," ","s"," ","a","l"," ","m","e","s">>, <<"s","a","b","a","d","o","s"," ","1">>>>,
     <<<<"2"," ","s"," ","a","l"," ","m","e","s">>, <<"s","a","b","a","d","o","s"," ","2">>>>,
     <<<<"3"," ","s"," ","a","l"," ","m","e","s">>, <<"s","a","b","a","d","o","s"," ","3">>>>,
     <<<<"f","e","r","i","a","d","o","s">>, <<"f","e","r","i","a","d","o">>>>,
     <<<<"s","a","d","o"," ","f","e">>, <<"s","á","b","a","d","o"," ","y"," ","d","o","m","i","n","g","o"," ","y"," ","f","e","r","i","a","d","o">>>>,
     <<<<"s","a","d","o","f","e">>, <<"s","á","b","a","d","o"," ","y"," ","d","o","m","i","n","g","o"," ","y"," ","f","e","r","i","a","d","o">>>>,
     <<<<"l"," ","a"," ","v">>, <<"l","u","n","e","s","-","v","i","e","r","n","e","s">>>>,
     <<<<"l"," ","a"," ","j">>, <<"l","u","n","e","s","-","j","u","e","v","e","s">>>>,
     <<<<" ","m","i","e"," ">>, <<" ","y"," ","m","i","é","r","c","o","l","e","s"," ">>>>,
     <<<<"s","a","f","e">>, <<"s","á","b","a","d","o"," ","y"," ","f","e","r","i","a","d","o">>>>,
     <<<<"d","o","f","e">>, <<"d","o","m","i","n","g","o"," ","y"," ","f","e","r","i","a","d","o">>>>,
     <<<<"l","a"," ","v">>, <<"l","u","n","e","s","-","v","i","e","r","n","e","s">>>>,
     <<<<"l","a"," ","j">>, <<"l","u","n","e","s","-","j","u","e","v","e","s">>>>,
     <<<<"3","s","a","b">>, <<"y"," ","s","á","b","a","d","o","s"," ","3">>>>,
     <<<<"2","s","a","b">>, <<"y"," ","s","á","b","a","d","o","s"," ","2">>>>,
     <<<<"1","s","a","b">>, <<"y"," ","s","á","b","a","d","o","s"," ","1">>>>,
     <<<<"3","s","á","b">>, <<"y"," ","s","á","b","a","d","o","s"," ","3">>>>,
     <<<<"2","s","á","b">>, <<"y"," ","s","á","b","a","d","o","s"," ","2">>>>,
     <<<<"1","s","á","b">>, <<"y"," ","s","á","b","a","d","o","s"," ","1">>>>,
     <<<<" ","m","i"," ">>, <<" ","y"," ","m","i","é","r","c","o","l","e","s"," ">>>>,
     <<<<"l","-","v">>, <<"l","u","n","e","s","-","v","i","e","r","n","e","s">>>>,
     <<<<"s","x","m">>, <<"s","á","b","a","d","o"," ","p","o","r"," ","m","e","d","i","o">>>>,
     <<<<"d","x","m">>, <<"d","o","m","i","n","g","o"," ","p","o","r"," ","m","e","d","i","o">>>>,
     <<<<"l","a","v">>, <<"l","u","n","e","s","-","v","i","e","r","n","e","s">>>>,
     <<<<"l","/","v">>, <<"l","u","n","e","s","-","v","i","e","r","n","e","s">>>>,
     <<<<"l"," ","v">>, <<"l","u","n","e","s","-","v","i","e","r","n","e","s">>>>,
     <<<<"3"," ","s">>, <<"y"," ","s","á","b","a","d","o","s"," ","3">>>>,
     <<<<"2"," ","s">>, <<"y"," ","s","á","b","a","d","o","s"," ","2">>>>,
     <<<<"1"," ","s">>, <<"y"," ","s","á","b","a","d","o","s"," ","1">>>>,
     <<<<" ","s"," ">>, <<" ","y"," ","s","á","b","a","d","o"," ">>>>,
     <<<<" ","d"," ">>, <<" ","y"," ","d","o","m","i","n","g","o"," ">>>>,
     <<<<" ","l"," ">>, <<" ","y"," ","l","u","n","e","s"," ">>>>,
     <<<<" ","m"," ">>, <<" ","y"," ","m","a","r","t","e","s"," ">>>>,
     <<<<" ","j"," ">>, <<" ","y"," ","j","u","e","v","e","s"," ">>>>,
     <<<<" ","v"," ">>, <<" ","y"," ","v","i","e","r","n","e","s"," ">>>>,
     <<<<"3","s">>, <<"y"," ","s","á","b","a","d","o","s"," ","3">>>>,
     <<<<"2","s">>, <<"y"," ","s","á","b","a","d","o","s"," ","2">>>>,
     <<<<"1","s">>, <<"y"," ","s","á","b","a","d","o","s"," ","1">>>>>>

\* re.sub(r'\b' + re.escape(old) + r'\b', new, text, flags=re.IGNORECASE)
reemplazar_clave(text, par) ==
    LET old == par[1]
        fin(t, i) == IF esta_en(t, i, old) /\ limite(t, i) /\ limite(t, i + Len(old))
                     THEN i + Len(old) ELSE 0
        new(t, i) == par[2]
    IN  re_sub(fin, new, text, 1)

\* "for old, new in sorted(equivalences.items(), ...)": the pairs applied in
\* the order of the table, the first half of the table before the second
RECURSIVE aplicar_tabla(_, _)
aplicar_tabla(text, tabla) ==
    IF tabla = << >> THEN text
    ELSE IF Len(tabla) = 1 THEN reemplazar_clave(text, tabla[1])
    ELSE LET mitad == Len(tabla) \div 2
             primera == aplicar_tabla(text, SubSeq(tabla, 1, mitad))
         IN  IF primera = text THEN aplicar_tabla(text, SubSeq(tabla, mitad + 1, Len(tabla)))
             ELSE aplicar_tabla(primera, SubSeq(tabla, mitad + 1, Len(tabla)))

apply_equivalences(text0, equivalences) ==
    LET fin_x_medio(t, i) == fin_dos_palabras(t, i, <<"x">>, <<"m","e","d","i","o">>)
        new_x_medio(t, i) == PLACEHOLDER_XMEDIO
        fin_por_medio(t, i) == fin_dos_palabras(t, i, <<"p","o","r">>, <<"m","e","d","i","o">>)
        new_por_medio(t, i) == PLACEHOLDER_PORMEDIO
        new_lav(t, i) == <<"l","u","n","e","s","-","v","i","e","r","n","e","s">>
        fin_al_mes(t, i) == coincidencia_al_mes(t, i)[1]
        new_al_mes(t, i) ==
            LET c == coincidencia_al_mes(t, i)
            IN  SubSeq(t, c[2], c[2] + c[3] - 1) \o <<" ","m","e","n","s","u","a","l">>
        new_conector(t, i) == <<" ","Y"," ">>
        text1 == re_sub(fin_x_medio, new_x_medio, text0, 1)
        text2 == re_sub(fin_por_medio, new_por_medio, text1, 1)
        text3 == re_sub(fin_lav, new_lav, text2, 1)
        text4 == re_sub(fin_al_mes, new_al_mes, text3, 1)
        text5 == re_sub(fin_conector, new_conector, text4, 1)
        text6 == aplicar_tabla(text5, equivalences)
        \* each pass runs on the finished text of the pass before it
        en_orden == \A t \in {text0, text1, text2, text3, text4, text5, text6} : Len(t) >= 0
    IN  IF en_orden
        THEN replace(replace(text6, PLACEHOLDER_XMEDIO, <<" ","p","o","r"," ","m","e","d","i","o">>),
                     PLACEHOLDER_PORMEDIO, <<" ","p","o","r"," ","m","e","d","i","o">>)
        ELSE text0

\* s_std of parse_schedule_string
normalizar_horario(schedule_str) ==
    apply_equivalences(clean_and_standardize(schedule_str), EQUIVALENCIAS)

\* the schedule texts explored: a day phrase, a time range, and nothing or a
\* second segment after it
FrasesDeDias ==
    {<<"L","u","n","e","s"," ","a"," ","V","i","e","r","n","e","s">>, <<"L"," ","a"," ","V">>, <<"L",".","A",".","V">>, <<"l","u","n","e","s"," ","a"," ","s","a","b">>, <<"L","u","n","e","s",","," ","m","a","r","t","e","s"," ","y"," ","m","i","e","r","c","o","l","e","s">>,
     <<"S","A","D","O","F","E">>, <<"s","a","f","e">>, <<"s","x","m">>, <<"S","á","b","a","d","o"," ","x"," ","m","e","d","i","o">>, <<"S","á","b","a","d","o"," ","p","o","r"," ","m","e","d","i","o">>,
     <<"1"," ","s","á","b","a","d","o"," ","a","l"," ","m","e","s">>, <<"L","u","n","e","s"," ","a"," ","v","i","e","r","n","e","s"," ","y"," ","2","S">>}

RangosDeHoras == {<<" ","d","e"," ","8"," ","a"," ","1","7">>, <<" ","d","e"," ","8",":","3","0"," ","a"," ","1","2"," ","h","s">>, <<" ","7"," ","a"," ","1","9","h","r","s">>}

SegundosTramos == {<< >>, <<","," ","s","á","b","a","d","o"," ","x"," ","m","e","d","i","o"," ","d","e"," ","8"," ","a"," ","1","2">>, <<" ","y"," ","d","o","f","e"," ","d","e"," ","8"," ","a"," ","2","0">>}

TextosDeHorario ==
    {d \o h \o s : d \in FrasesDeDias, h \in RangosDeHoras, s \in SegundosTramos}

\* the row of the workbook with its "Horario completo"
InitNormalizador ==
    /\ \E t \in TextosDeHorario :
          legajo = [Legajo(PerfilBase, << >>) EXCEPT
                       !.horario = [texto |-> t, bloques |-> << >>, resumen |-> None]]
    /\ variables = << >>
    /\ pc = "horario"
    /\ SinLote

\* parse_schedule_string: s_std, the normalized text of the schedule
NormalizarHorario ==
    /\ pc = "horario"
    /\ legajo' = [legajo EXCEPT !.horario.texto = normalizar_horario(@)]
    /\ pc' = "normalizado"
    /\ UNCHANGED <<variables, lote, stats, resultados, df, index, stats_filas>>

NextNormalizador == NormalizarHorario

SpecNormalizador == InitNormalizador /\ [][NextNormalizador]_vars

(***************************************************************************)
(* procesar_archivo_json: the loop over data['legajos']                    *)
(*                                                                         *)
(* A record of the file is [legajo, ausentes, secciones_nulas,             *)
(* bloques_nulos]: the values the rules read, the key paths the JSON       *)
(* object lacks, the sections that hold null and the positions of the      *)
(* block list that hold null.  A value kept in legajo under an absent key  *)
(* or a null section is never read.  The records explored carry none of    *)
(* the keys crudo_min, legajo and id.                                      *)
(***************************************************************************)
Registro(l, ausentes, secciones_nulas, bloques_nulos) ==
    [legajo |-> l, ausentes |-> ausentes, secciones_nulas |-> secciones_nulas,
     bloques_nulos |-> bloques_nulos]

\* legajo_id of the loop: legajo.get('id_legajo') or ... or 'DESCONOCIDO'
legajo_id(r) ==
    IF <<"id_legajo">> \in r.ausentes \/ r.legajo.id_legajo = 0 THEN Str(<<"D","E","S","C","O","N","O","C","I","D","O">>)
    ELSE Num(r.legajo.id_legajo, 0)

CAMPOS_REQUERIDOS ==
    <<"id_legajo", "datos_personales", "contratacion", "horario", "remuneracion">>

SUBCAMPOS_REQUERIDOS ==
    << <<"datos_personales", <<"nombre", "sector", "puesto", "sede">> >>,
       <<"contratacion", <<"tipo", "categoria", "fechas">> >>,
       <<"horario", <<"bloques", "resumen">> >>,
       <<"remuneracion", <<"sueldo_base", "moneda">> >> >>

\* the loop over subcampos_requeridos: "k in legajo.get(campo, {})" raises
\* TypeError on a section that holds null
RECURSIVE validar_subcampos(_, _)
validar_subcampos(r, pendientes) ==
    IF pendientes = << >> THEN "True"
    ELSE LET campo == Head(pendientes)[1]
             subcampos == Head(pendientes)[2]
         IN  IF campo \in r.secciones_nulas THEN "TypeError"
             ELSE IF \E k \in Range(subcampos) : <<campo, k>> \in r.ausentes THEN "False"
             ELSE validar_subcampos(r, Tail(pendientes))

\* the validation of the top-level keys alone
validar_estructura_legajo_sin_subcampos(r) ==
    IF \E k \in Range(CAMPOS_REQUERIDOS) : <<k>> \in r.ausentes THEN "False" ELSE "True"

\* "True", "False", or the exception raised
validar_estructura_legajo(r) ==
    IF \E k \in Range(CAMPOS_REQUERIDOS) : <<k>> \in r.ausentes THEN "False"
    ELSE validar_subcampos(r, SUBCAMPOS_REQUERIDOS)

\* validar_horario raises TypeError on "k in bloque" at the first block that
\* holds null, unless a block before it lacks a key
lanza_validar_horario(r) ==
    \E k \in r.bloques_nulos :
        \A j \in 1..(k - 1) :
            /\ j \notin r.bloques_nulos
            /\ {"dias_semana", "hora_inicio", "hora_fin"} \subseteq r.legajo.horario.bloques[j].claves

\* faulty variant: the list of the record before is not emptied
calcular_variables_o_vacio_con_lista_compartida(r) ==
    IF lanza_validar_horario(r) THEN << >> ELSE variables \o calcular_variables(r.legajo)

\* calcular_variables with its try: "except Exception: return []"
calcular_variables_o_vacio(r) ==
    IF lanza_validar_horario(r) THEN << >> ELSE calcular_variables(r.legajo)

\* str(x[0]) of the sort key
str_id(v) == IF v.tipo = "num" THEN digitos_de(v.num) ELSE v.txt

\* key(a) < key(b) for key = lambda x: (str(x[0]), x[1])
clave_menor(a, b) ==
    \/ str_mayor(str_id(b[1]), str_id(a[1]))
    \/ str_id(a[1]) = str_id(b[1]) /\ a[2] < b[2]

\* t placed after the tuples whose key is not greater
RECURSIVE insertar(_, _)
insertar(ordenados, t) ==
    IF ordenados = << >> THEN <<t>>
    ELSE IF clave_menor(t, Head(ordenados)) THEN <<t>> \o ordenados
    ELSE <<Head(ordenados)>> \o insertar(Tail(ordenados), t)

\* resultados_ordenados = sorted(resultados, key=lambda x: (str(x[0]), x[1])), a stable sort
RECURSIVE resultados_ordenados(_)
resultados_ordenados(rs) ==
    IF rs = << >> THEN << >>
    ELSE CHOOSE r \in {insertar(ordenados, rs[Len(rs)]) :
                           ordenados \in {resultados_ordenados(SubSeq(rs, 1, Len(rs) - 1))}} : TRUE

\* faulty variant: only the first pair of variables_legajo gives a tuple
tuplas_de_solo_la_primera(id, variables_legajo) ==
    IF variables_legajo = << >> THEN << >>
    ELSE << <<id, variables_legajo[1][1], variables_legajo[1][2]>> >>

\* (legajo_id, var_codigo, var_valor) for each pair of variables_legajo
tuplas_de(id, variables_legajo) ==
    [k \in DOMAIN variables_legajo |-> <<id, variables_legajo[k][1], variables_legajo[k][2]>>]

\* one iteration of "for i, legajo in enumerate(data['legajos'], 1)"; pc names
\* the way the iteration ended
ProcesarLegajo ==
    /\ pc \in {"lote", "estructura_invalida", "sin_variables", "procesado", "excepcion"}
    /\ lote # << >>
    /\ LET r == Head(lote)
           estructura == validar_estructura_legajo(r)
           variables_legajo == calcular_variables_o_vacio(r)
       IN  /\ legajo' = r
           /\ lote' = Tail(lote)
           /\ CASE estructura = "False" ->
                     /\ stats' = [stats EXCEPT !.legajos_con_error = @ + 1,
                                               !.errores_por_tipo.estructura_invalida = @ + 1]
                     /\ pc' = "estructura_invalida"
                     /\ UNCHANGED <<variables, resultados>>
                [] estructura = "TypeError" ->
                     /\ stats' = [stats EXCEPT !.legajos_con_error = @ + 1,
                                               !.errores_por_tipo.TypeError = @ + 1]
                     /\ pc' = "excepcion"
                     /\ UNCHANGED <<variables, resultados>>
                [] estructura = "True" /\ variables_legajo = << >> ->
                     /\ variables' = variables_legajo
                     /\ pc' = "sin_variables"
                     /\ UNCHANGED <<stats, resultados>>
                [] OTHER ->
                     \E calculadas \in {variables_legajo} :
                         /\ variables' = calculadas
                         /\ resultados' = resultados \o tuplas_de(legajo_id(r), calculadas)
                         /\ stats' = [stats EXCEPT !.legajos_procesados = @ + 1,
                                                   !.variables_calculadas = @ + Len(calculadas)]
                         /\ pc' = "procesado"
    /\ UNCHANGED <<df, index, stats_filas>>

\* after the loop: the sorted result list, or None when it is empty
Terminar ==
    /\ pc \in {"lote", "estructura_invalida", "sin_variables", "procesado", "excepcion"}
    /\ lote = << >>
    /\ resultados' = resultados_ordenados(resultados)
    /\ pc' = IF resultados = << >> THEN "sin_resultados" ELSE "completado"
    /\ UNCHANGED <<legajo, variables, lote, stats, df, index, stats_filas>>

NextLote == ProcesarLegajo \/ Terminar

(***************************************************************************)
(* Batches explored                                                        *)
(***************************************************************************)
\* the largest number of records of a batch
MaxLote == 3

\* the record of the file for a legajo with its summary
RegistroCompleto(p, bloques) ==
    Registro(LegajoJson(p, bloques, calcular_resumen_horario(bloques).total_horas_semanales),
             {}, {}, {})

\* two well-formed records, whose ids sort differently as text and as numbers,
\* and a record whose only block is null
RegistrosBase ==
    {RegistroCompleto(PerfilBase, <<Bloques.LV_8_15>>),
     RegistroCompleto([PerfilBase EXCEPT !.id = 202, !.puesto = Str(<<"B","i","o","q","u","í","m","i","c","o">>),
                                         !.sector = Str(<<"L","a","b","o","r","a","t","o","r","i","o">>)],
                      <<Bloques.LS_8_14>>),
     [RegistroCompleto([PerfilBase EXCEPT !.id = 303], <<Bloques.LV_8_15>>)
         EXCEPT !.bloques_nulos = {1}]}

\* the key paths validar_estructura_legajo requires
ClavesRequeridas ==
    {<<k>> : k \in Range(CAMPOS_REQUERIDOS)}
    \cup UNION {{<<SUBCAMPOS_REQUERIDOS[i][1], k>> : k \in Range(SUBCAMPOS_REQUERIDOS[i][2])} :
                  i \in DOMAIN SUBCAMPOS_REQUERIDOS}

RegistroDefectuoso == RegistroCompleto([PerfilBase EXCEPT !.id = 404], <<Bloques.LV_8_15>>)

\* records with one required key absent, with one section null, and with a
\* null block after a complete block or after an incomplete one
RegistrosDefectuosos ==
    {[RegistroDefectuoso EXCEPT !.ausentes = {c}] : c \in ClavesRequeridas}
    \cup {[RegistroDefectuoso EXCEPT !.secciones_nulas = {SUBCAMPOS_REQUERIDOS[i][1]}] :
            i \in DOMAIN SUBCAMPOS_REQUERIDOS}
    \cup {[RegistroDefectuoso EXCEPT
              !.legajo.horario.bloques = <<Bloques.LV_8_15, Bloques.LV_8_15>>,
              !.bloques_nulos = {2}],
          [RegistroDefectuoso EXCEPT
              !.legajo.horario.bloques =
                  <<SinClave(Bloques.LV_8_15, "hora_fin"), Bloques.LV_8_15>>,
              !.bloques_nulos = {2}]}

\* the batches of 0..MaxLote base records, with at most one of them replaced
\* by a defective record
Lotes ==
    LET bases == UNION {[1..n -> RegistrosBase] : n \in 0..MaxLote}
    IN  bases \cup {[b EXCEPT ![k] = d] : b \in bases \ {<< >>}, k \in 1..MaxLote,
                                          d \in RegistrosDefectuosos}

\* the file is loaded and total_legajos is set
InitLote ==
    /\ lote \in Lotes
    /\ stats = [stats_iniciales EXCEPT !.total_legajos = Len(lote)]
    /\ resultados = << >>
    /\ legajo = None
    /\ variables = << >>
    /\ pc = "lote"
    /\ SinFilas

SpecLote == InitLote /\ [][NextLote]_vars
(***************************************************************************)
(* procesar_excel_a_json: the loop over the rows of the workbook, and the  *)
(* hand-over of the JSON file it writes to procesar_archivo_json           *)
(*                                                                         *)
(* A row is [Legajo, Horario, perfil]: the cell 'Legajo', the cell         *)
(* 'Horario completo' and the values the other columns normalize to.  The  *)
(* schedule cell is None when empty; otherwise it is represented by what   *)
(* the regular expressions of the code find in its normalized text:        *)
(* whether a key of DAY_MAP occurs as a word (dia_ok), whether the range   *)
(* pattern of validar_fila_detallada occurs (rango_ok), whether an         *)
(* ambiguous term occurs (ambiguo), and the matches of the schedule        *)
(* pattern of parse_schedule_string.  The rows explored hold a sector, a   *)
(* recognised category and a date of entry, so these columns add no error. *)
(***************************************************************************)
Fila(Legajo_, Horario, p) == [Legajo |-> Legajo_, Horario |-> Horario, perfil |-> p]

HorarioDeFila(dia_ok, rango_ok, ambiguo, matches) ==
    [tipo |-> "str", dia_ok |-> dia_ok, rango_ok |-> rango_ok, ambiguo |-> ambiguo,
     matches |-> matches]

\* validacion['errores']
validar_fila_detallada(row) ==
    (IF es_None(row.Legajo) THEN <<"Legajo faltante">>
     ELSE IF row.Legajo.tipo # "num" \/ row.Legajo.num <= 0
     THEN <<"Legajo debe ser número positivo">>
     ELSE << >>)
    \o (IF es_None(row.Horario) THEN <<"Horario faltante o vacío">>
        ELSE (IF row.Horario.dia_ok THEN << >> ELSE <<"Horario no especifica días válidos">>)
             \o (IF row.Horario.rango_ok THEN << >>
                 ELSE <<"Horario no contiene rango horario válido">>)
             \o (IF row.Horario.ambiguo THEN <<"Horario contiene términos ambiguos">>
                 ELSE << >>))

\* 10^d
RECURSIVE potencia_de_10(_)
potencia_de_10(d) == IF d = 0 THEN 1 ELSE 10 * potencia_de_10(d - 1)

\* int(legajo) of a positive number
int_de_numero(v) == v.num \div potencia_de_10(v.dec)

\* empleado_mejorado: the record appended to all_normalized_data
empleado_mejorado(row, normalized_schedule) ==
    LET bloques == bloques_con_hora(normalized_schedule)
    IN  Registro(LegajoJson([row.perfil EXCEPT !.id = int_de_numero(row.Legajo)], bloques,
                            calcular_resumen_horario(bloques).total_horas_semanales),
                 {}, {}, {})

\* the positions of the row loop
EnFilas == pc \in {"filas", "fila_omitida", "error_parsing", "fila_procesada"}

\* one iteration of "for index, row in df.iterrows()"; pc names the way the
\* iteration ended
ProcesarFila ==
    /\ EnFilas
    /\ index < Len(df)
    /\ LET row == df[index + 1]
           errores == validar_fila_detallada(row)
           normalized_schedule == parse_schedule_string(row.Horario.matches)
       IN  /\ index' = index + 1
           /\ IF errores # << >>
              THEN /\ stats_filas' = [stats_filas EXCEPT
                                         !.filas_omitidas = @ + 1,
                                         !.total_errores_validacion = @ + Len(errores)]
                   /\ pc' = "fila_omitida"
                   /\ UNCHANGED <<legajo, lote>>
              ELSE IF normalized_schedule = << >>
              THEN /\ stats_filas' = [stats_filas EXCEPT !.errores_parsing = @ + 1]
                   /\ pc' = "error_parsing"
                   /\ UNCHANGED <<legajo, lote>>
              ELSE /\ \E empleado \in {empleado_mejorado(row, normalized_schedule)} :
                          /\ legajo' = empleado
                          /\ lote' = Append(lote, empleado)
                   /\ stats_filas' = [stats_filas EXCEPT !.procesados_exitosamente = @ + 1]
                   /\ pc' = "fila_procesada"
    /\ UNCHANGED <<variables, stats, resultados, df>>

\* after the last row the file is written; procesar_archivo_json loads it
\* and sets total_legajos
CargarJson ==
    /\ EnFilas
    /\ index = Len(df)
    /\ stats' = [stats_iniciales EXCEPT !.total_legajos = Len(lote)]
    /\ pc' = "lote"
    /\ UNCHANGED <<legajo, variables, lote, resultados, df, index, stats_filas>>

NextFilas == ProcesarFila \/ CargarJson \/ ProcesarLegajo \/ Terminar

(***************************************************************************)
(* Workbooks explored                                                      *)
(***************************************************************************)
\* the largest number of rows of a workbook
MaxFilas == 3

\* the values of a row with Sede 'PILAR', Sector 'ADMINISTRACION', Puesto
\* 'Recepcionista', Categoría '1° ADM (DC)' and Modalidad 'TIEMPO COMPLETO
\* INDETERMINADO', without salary, extras or end date
PerfilFila ==
    [PerfilBase EXCEPT !.sede = Str(<<"P","i","l","a","r">>), !.sector = Str(<<"A","D","M","I","N","I","S","T","R","A","C","I","O","N">>),
                       !.puesto = Str(<<"R","e","c","e","p","c","i","o","n","i","s","t","a">>), !.categoria = Str(<<"d","c","_","1","_","a","d","m">>),
                       !.tipo = Str(<<"t","i","e","m","p","o","_","c","o","m","p","l","e","t","o","_","i","n","d","e","f","i","n","i","d","o">>)]

\* 'Lunes a Viernes de 8 a 15' for legajo 1001 and 'Lunes a Sabado de 8 a 14'
\* for legajo 202.0 of the laboratory
FilasBase ==
    {Fila(Num(1001, 0),
          HorarioDeFila(TRUE, TRUE, FALSE, <<Coincidencia(<<<<"l","u","n","e","s","-","v","i","e","r","n","e","s">>>>, <<"8">>, <<"1","5">>)>>),
          PerfilFila),
     Fila(Num(2020, 1),
          HorarioDeFila(TRUE, TRUE, FALSE, <<Coincidencia(<<<<"l","u","n","e","s","-","s","a","b","a","d","o">>>>, <<"8">>, <<"1","4">>)>>),
          [PerfilFila EXCEPT !.puesto = Str(<<"B","i","o","q","u","í","m","i","c","o">>), !.sector = Str(<<"L","a","b","o","r","a","t","o","r","i","o">>)])}

\* schedule cells: 'de 8 a 17 de lunes a viernes' and 'Lunes: 8 a 17' (valid,
\* no block), 'variable' and 'rotativo lunes a viernes 8 a 17' (ambiguous),
\* 'a convenir 8 a 17' (no day), an empty cell, and
\* 'Lunes a Viernes 22 a 6' (a night schedule)
HorariosDeFila ==
    {HorarioDeFila(TRUE, TRUE, FALSE, <<Coincidencia(<< >>, <<"8">>, <<"1","7">>)>>),
     HorarioDeFila(TRUE, TRUE, FALSE, << >>),
     HorarioDeFila(FALSE, FALSE, TRUE, << >>),
     HorarioDeFila(TRUE, TRUE, TRUE,
                   <<Coincidencia(<<<<"r","o","t","a","t","i","v","o">>, <<"l","u","n","e","s","-","v","i","e","r","n","e","s">>>>, <<"8">>, <<"1","7">>)>>),
     HorarioDeFila(FALSE, TRUE, FALSE, <<Coincidencia(<<<<"a">>, <<"c","o","n","v","e","n","i","r">>>>, <<"8">>, <<"1","7">>)>>),
     None,
     HorarioDeFila(TRUE, TRUE, FALSE, <<Coincidencia(<<<<"l","u","n","e","s","-","v","i","e","r","n","e","s">>>>, <<"2","2">>, <<"6">>)>>)}

\* rows of legajo 404 with each schedule cell, and rows without a usable Legajo
FilasEspeciales ==
    {Fila(Num(404, 0), h, PerfilFila) : h \in HorariosDeFila}
    \cup {Fila(l, HorarioDeFila(TRUE, TRUE, FALSE,
                                <<Coincidencia(<<<<"l","u","n","e","s","-","v","i","e","r","n","e","s">>>>, <<"8">>, <<"1","5">>)>>),
               PerfilFila) : l \in {None, Num(0, 0)}}

\* the workbooks of 0..MaxFilas base rows, with at most one of them replaced
\* by a special row
Libros ==
    LET bases == UNION {[1..n -> FilasBase] : n \in 0..MaxFilas}
    IN  bases \cup {[b EXCEPT ![k] = e] : b \in bases \ {<< >>}, k \in 1..MaxFilas,
                                          e \in FilasEspeciales}

InitFilas ==
    /\ df \in Libros
    /\ index = 0
    /\ stats_filas = stats_filas_iniciales(Len(df))
    /\ lote = << >>
    /\ stats = stats_iniciales
    /\ resultados = << >>
    /\ legajo = None
    /\ variables = << >>
    /\ pc = "filas"

SpecFilas == InitFilas /\ [][NextFilas]_vars
(***************************************************************************)
(* Properties                                                              *)
(*   Vocabulary: the list of results of the record being processed.        *)
(***************************************************************************)
Calculado == pc = "calculado"

Codigos == {variables[i][1] : i \in DOMAIN variables}

Emitida(codigo, valor) == \E i \in DOMAIN variables : variables[i] = <<codigo, valor>>

\* the values emitted under a code
Valores(codigo) ==
    {variables[i][2] : i \in {j \in DOMAIN variables : variables[j][1] = codigo}}

BloquesLegajo == legajo.horario.bloques

\* the block list is empty or holds a block without its days or one of its times
HorarioVacioOIncompleto ==
    \/ BloquesLegajo = << >>
    \/ \E i \in DOMAIN BloquesLegajo :
          \E k \in {"dias_semana", "hora_inicio", "hora_fin"} : k \notin BloquesLegajo[i].claves

\* C1: a record whose block list is empty, or holds a block missing
\* dias_semana, hora_inicio or hora_fin, gets exactly one result, code 9000
\* with the message that the schedule could not be interpreted, and no other
\* rule is evaluated.
C1_HorarioNoInterpretable ==
    (Calculado /\ HorarioVacioOIncompleto)
        => variables = << <<9000, Str(<<"N","o"," ","s","e"," ","p","u","d","o"," ","i","n","t","e","r","p","r","e","t","a","r"," ","c","o","r","r","e","c","t","a","m","e","n","t","e"," ","e","l"," ","h","o","r","a","r","i","o">>)>> >>

\* a processed record with one complete block and one block without hora_fin
C1_Testigo ==
    /\ Calculado
    /\ Len(BloquesLegajo) = 2
    /\ BloquesLegajo[1].claves = ClavesBloque
    /\ "hora_fin" \notin BloquesLegajo[2].claves
    /\ Codigos = {9000}

\* C2 as stated: for every record with a usable block list the emitted v239
\* lies in [0, 168]; it equals total_horas_semanales when that is a number in
\* [0, 168] and is 0 when it is negative, above 168, absent or not a number.
\* (A string that reads as a number counts as that number.)
C2_V239EnRango ==
    (Calculado /\ ~HorarioVacioOIncompleto)
        => \E i \in DOMAIN variables :
              /\ variables[i][1] = 239
              /\ LET v == variables[i][2]
                     crudo == legajo.horario.resumen.total_horas_semanales
                     numero == IF crudo.tipo = "str" /\ solo_digitos(strip(crudo.txt))
                               THEN Num(valor_digitos(strip(crudo.txt)) * 100, 2)
                               ELSE crudo
                     en_rango == /\ numero.tipo = "num"
                                 /\ centesimas(numero) >= 0
                                 /\ centesimas(numero) <= 168 * 100
                 IN  /\ v.tipo = "num"
                     /\ centesimas(v) >= 0 /\ centesimas(v) <= 168 * 100
                     /\ en_rango => centesimas(v) = centesimas(numero)
                     /\ ~en_rango => centesimas(v) = 0

(***************************************************************************)
(* The summary against the blocks                                          *)
(***************************************************************************)
Resumido == pc \in {"json", "calculado"}

ResumenLegajo == legajo.horario.resumen

\* duration of a block in minutes, from its two times
MinutosDeBloque(b) ==
    LET ini == b.hora_inicio[1] * 60 + b.hora_inicio[2]
        fin == b.hora_fin[1] * 60 + b.hora_fin[2]
    IN  IF fin < ini THEN fin + 1440 - ini ELSE fin - ini

\* sum over the blocks of duration x |days| x factor, in 1/240 hour
RECURSIVE HorasDeBloques(_)
HorasDeBloques(bloques) ==
    IF bloques = << >> THEN 0
    ELSE MinutosDeBloque(Head(bloques))
            * Cardinality({Head(bloques).dias_semana[i] : i \in DOMAIN Head(bloques).dias_semana})
            * Head(bloques).periodicidad.factor4
         + HorasDeBloques(Tail(bloques))

\* the per-day entries of the summary, as a set of <<day, position>>
EntradasDelResumen ==
    UNION {{<<d, i>> : i \in DOMAIN ResumenLegajo.bloques_por_dia[d]} :
              d \in DOMAIN ResumenLegajo.bloques_por_dia}

RECURSIVE SumaHorasSemanales(_)
SumaHorasSemanales(entradas) ==
    IF entradas = {} THEN 0
    ELSE LET e == CHOOSE x \in entradas : TRUE
         IN  ResumenLegajo.bloques_por_dia[e[1]][e[2]].horas_semanales
             + SumaHorasSemanales(entradas \ {e})

\* total_horas_semanales and the sum of the entries, in hundredths
TotalSemanal == ResumenLegajo.total_horas_semanales.num
SumaEntradas == SumaHorasSemanales(EntradasDelResumen)

Distancia(a, b) == IF a >= b THEN a - b ELSE b - a

\* total_horas_semanales is the sum over the blocks rounded to 2 decimals
TotalEsSumaDeBloques ==
    Distancia(240 * TotalSemanal, 100 * HorasDeBloques(BloquesLegajo)) <= 120

\* Mon-Fri 12-20 weekly plus one Saturday a month 7-19 gives 43
Ejemplo43 == BloquesLegajo = <<Bloques.LV_12_20, Bloques.Sab_Mensual>> => TotalSemanal = 43 * 100

\* C3 as stated: total_horas_semanales equals the sum over the blocks of
\* duration x |days| x factor and the sum of horas_semanales over every per-day
\* entry, the two sums agreeing to a hundredth.
C3_TotalIgualSumaEntradas ==
    Resumido => /\ TotalEsSumaDeBloques
                /\ Distancia(TotalSemanal, SumaEntradas) <= 1
                /\ Ejemplo43

\* C3, amended: total_horas_semanales is the sum over the blocks of
\* duration x |days| x factor rounded to 2 decimals; each per-day entry rounds
\* its own horas_semanales to 2 decimals, so the sum of the entries is within
\* half a hundredth per entry, plus half a hundredth for the total, of it.
\* Mon-Fri 12-20 weekly plus one Saturday a month 7-19 gives 43.
C3_TotalCercaDeSumaEntradas ==
    Resumido => /\ TotalEsSumaDeBloques
                /\ 2 * Distancia(TotalSemanal, SumaEntradas)
                      <= Cardinality(EntradasDelResumen) + 1
                /\ Ejemplo43

\* a summary whose entries add up to two hundredths or more away from the total
C3_Testigo ==
    /\ Resumido
    /\ TotalSemanal > 0
    /\ Distancia(TotalSemanal, SumaEntradas) >= 2

(***************************************************************************)
(* Monthly days (1242)                                                     *)
(***************************************************************************)
\* what a per-day entry adds to the weekly day count, as <<numerator, denominator>>
PesoDeEntrada(e) ==
    CASE e.periodicidad = <<"s","e","m","a","n","a","l">> -> <<1, 1>>
      [] e.periodicidad = <<"q","u","i","n","c","e","n","a","l">> -> <<1, 2>>
      [] e.periodicidad = <<"m","e","n","s","u","a","l">> -> <<1, 4>>
      [] e.periodicidad = <<"p","r","o","p","o","r","c","i","o","n","a","l">> ->
           IF e.duracion_total > 0 /\ e.horas_semanales > 0
           THEN <<e.horas_semanales, e.duracion_total>>
           ELSE <<3, 4>>
      [] OTHER -> <<1, 1>>

EsReconocida(e) ==
    e.periodicidad \in {<<"s","e","m","a","n","a","l">>, <<"q","u","i","n","c","e","n","a","l">>, <<"m","e","n","s","u","a","l">>, <<"p","r","o","p","o","r","c","i","o","n","a","l">>}

\* a worked day counts once, by its first entry of a recognized periodicity,
\* and as a weekly day when it has none
PesoDelDia(entradas) ==
    IF \A i \in DOMAIN entradas : ~EsReconocida(entradas[i]) THEN <<1, 1>>
    ELSE PesoDeEntrada(entradas[CHOOSE i \in DOMAIN entradas :
                                   /\ EsReconocida(entradas[i])
                                   /\ \A j \in 1..(i - 1) : ~EsReconocida(entradas[j])])

\* the sum of the weights of the days, as <<numerator, denominator>>
RECURSIVE SumaDePesos(_)
SumaDePesos(dias) ==
    IF dias = {} THEN <<0, 1>>
    ELSE LET d == CHOOSE x \in dias : TRUE
             w == PesoDelDia(ResumenLegajo.bloques_por_dia[d])
             r == SumaDePesos(dias \ {d})
         IN  <<w[1] * r[2] + r[1] * w[2], w[2] * r[2]>>

\* v is n/d x 4.33 rounded half-up: v <= n/d x 4.33 + 0.5 < v + 1
EsMediaArriba433(v, n, d) ==
    /\ 200 * d * v <= 866 * n + 100 * d
    /\ 866 * n + 100 * d < 200 * d * (v + 1)

\* C4: calcular_dias_mensuales adds, once per worked day, 1 for a weekly day,
\* 0.5 for a biweekly one, 0.25 for a monthly one, horas_semanales /
\* duracion_total for a proportional one (0.75 when either figure is not
\* positive) and 1 for a day without a recognized periodicity, and returns the
\* sum x 4.33 rounded half-up; one monthly Saturday alone gives 1.
C4_DiasMensuales ==
    (Calculado /\ ~HorarioVacioOIncompleto)
        => \E i \in DOMAIN variables :
              /\ variables[i][1] = 1242
              /\ variables[i][2].tipo = "num" /\ variables[i][2].dec = 0
              /\ LET s == SumaDePesos(DOMAIN ResumenLegajo.bloques_por_dia)
                 IN  EsMediaArriba433(variables[i][2].num, s[1], s[2])
              /\ BloquesLegajo = <<Bloques.Sab_Mensual>> => variables[i][2].num = 1

\* one monthly Saturday alone, processed
C4_Testigo ==
    /\ Calculado
    /\ BloquesLegajo = <<Bloques.Sab_Mensual>>
    /\ Emitida(1242, Num(1, 0))

(***************************************************************************)
(* Guards (2000) and night hours (1157, 1498)                              *)
(***************************************************************************)
SedeEnListaPermitida == normalizar_texto(legajo.datos_personales.sede) \in sedes_permitidas

\* "full" and "guardia" in any case, separated by spaces, tabs or hyphens
SeparadoresFullGuardia == {" ", "\t", "-"}

TieneFullGuardia ==
    LET a == legajo.remuneracion.adicionables
    IN  /\ a.tipo = "str"
        /\ \E i \in 1..Len(a.txt) : \E j \in (i + 5)..Len(a.txt) :
              /\ j + 6 <= Len(a.txt)
              /\ lower(SubSeq(a.txt, i, i + 3)) = <<"f","u","l","l">>
              /\ \A k \in (i + 4)..(j - 1) : a.txt[k] \in SeparadoresFullGuardia
              /\ lower(SubSeq(a.txt, j, j + 6)) = <<"g","u","a","r","d","i","a">>

DiasTrabajados ==
    UNION {{BloquesLegajo[i].dias_semana[k] : k \in DOMAIN BloquesLegajo[i].dias_semana} :
              i \in DOMAIN BloquesLegajo}

DiasQuincenales ==
    {d \in DiasTrabajados :
        \E i \in DOMAIN BloquesLegajo :
            /\ BloquesLegajo[i].periodicidad.tipo = <<"q","u","i","n","c","e","n","a","l">>
            /\ \E k \in DOMAIN BloquesLegajo[i].dias_semana : BloquesLegajo[i].dias_semana[k] = d}

\* twice the weighted count of worked days: a biweekly day counts 0.5, any other 1
DiasPonderadosPorDos ==
    Cardinality(DiasQuincenales) + 2 * Cardinality(DiasTrabajados \ DiasQuincenales)

GuardiaSegunCondiciones ==
    SedeEnListaPermitida /\ TieneFullGuardia /\ DiasPonderadosPorDos <= 2 * 3

\* C5: es_guardia is true if and only if the normalized site is in the
\* allow-list, the extras contain "full guardia" in any case, spacing or
\* hyphenation (the two words, separated), and the weighted count of worked
\* days, a biweekly day counting 0.5 and any other 1, is at most 3.
C5_GuardiaSiYSoloSi ==
    Calculado => (es_guardia(legajo) <=> GuardiaSegunCondiciones)

\* a guard who works six days, every other week
C5_Testigo ==
    /\ Calculado
    /\ es_guardia(legajo)
    /\ Cardinality(DiasTrabajados) = 6
    /\ DiasPonderadosPorDos = 2 * 3

\* C6: with a non-empty block list, a guard's results hold (2000, 1), neither
\* 1157 nor 1498 whatever the night hours, and code 1 only in the fixed-salary
\* category; who is not a guard has no code 2000.
C6_VariablesDeGuardia ==
    (Calculado /\ BloquesLegajo # << >>)
        => IF GuardiaSegunCondiciones
           THEN /\ Emitida(2000, Num(1, 0))
                /\ 1157 \notin Codigos
                /\ 1498 \notin Codigos
                /\ 1 \in Codigos => legajo.contratacion.categoria = Str(<<"f","c","_","p","f","c">>)
           ELSE 2000 \notin Codigos

\* a guard of the fixed-salary category with night hours in the schedule
C6_Testigo ==
    /\ Calculado
    /\ GuardiaSegunCondiciones
    /\ ResumenLegajo.total_horas_nocturnas.num > 0
    /\ Emitida(2000, Num(1, 0))
    /\ 1 \in Codigos

\* the per-day entries of the worked days
EntradasDe(d) == ResumenLegajo.bloques_por_dia[d]
DiasDelResumen == DOMAIN ResumenLegajo.bloques_por_dia

RECURSIVE SumaCampo(_, _)
SumaCampo(entradas, campo) ==
    IF entradas = << >> THEN 0 ELSE Head(entradas)[campo] + SumaCampo(Tail(entradas), campo)

\* more than 80% of the worked days have night hours, every worked day has more
\* than half of its hours at night, every worked day starts at 18:00 or later
FullNocturnoSegunCondiciones ==
    /\ DiasDelResumen # {}
    /\ 100 * Cardinality({d \in DiasDelResumen :
                            \E i \in DOMAIN EntradasDe(d) : EntradasDe(d)[i].horas_nocturnas > 0})
          > 80 * Cardinality(DiasDelResumen)
    /\ \A d \in DiasDelResumen :
          2 * SumaCampo(EntradasDe(d), "horas_nocturnas")
             > SumaCampo(EntradasDe(d), "duracion_total")
    /\ \A d \in DiasDelResumen : \A i \in DOMAIN EntradasDe(d) :
          EntradasDe(d)[i].inicio[1] >= 18

CategoriaEnAlcance ==
    LET c == legajo.contratacion.categoria
    IN  /\ c.tipo = "str"
        /\ Len(c.txt) >= 3
        /\ lower(SubSeq(c.txt, 1, 3)) = <<"d","c","_">>

\* v hundredths is total_horas_nocturnas x 4.33 to the nearest hundredth
EsNocturnasMensuales(v) ==
    Distancia(100 * v, 433 * ResumenLegajo.total_horas_nocturnas.num) <= 50

\* C7: for who is not a guard and has monthly night hours above 0: on a
\* full-night schedule 1157 is not emitted and (1498, 1) is emitted exactly when
\* the category is in scope (dc_); otherwise 1157 carries the monthly night
\* hours and (1498, 1) is emitted under the same gate.
C7_NocturnasYAdicional ==
    (Calculado /\ BloquesLegajo # << >> /\ ~GuardiaSegunCondiciones
       /\ ResumenLegajo.total_horas_nocturnas.num > 0)
        => /\ Valores(1498) \subseteq {Num(1, 0)}
           /\ (1498 \in Codigos <=> CategoriaEnAlcance)
           /\ IF FullNocturnoSegunCondiciones
              THEN 1157 \notin Codigos
              ELSE \E x \in Valores(1157) : /\ Valores(1157) = {x}
                                             /\ x.tipo = "num" /\ x.dec = 2 /\ x.num > 0
                                             /\ EsNocturnasMensuales(x.num)

\* a full-night schedule, not a guard, category in scope: only 1498
C7_Testigo ==
    /\ Calculado
    /\ ~GuardiaSegunCondiciones
    /\ FullNocturnoSegunCondiciones
    /\ Emitida(1498, Num(1, 0))
    /\ 1157 \notin Codigos

(***************************************************************************)
(* Monthly hours (4)                                                       *)
(***************************************************************************)
PuestoLegajo == normalizar_texto(legajo.datos_personales.puesto)
SectorLegajo == normalizar_texto(legajo.datos_personales.sector.principal)

\* the emitted v239 and v4, in hundredths
V239 == centesimas(CHOOSE v \in Valores(239) : TRUE)
V4 == centesimas(CHOOSE v \in Valores(4) : TRUE)

HorasEmitidas ==
    /\ Calculado
    /\ \E v \in Valores(239) : v.tipo = "num"
    /\ \E v \in Valores(4) : v.tipo = "num"

\* the position and sector combinations with a fixed 200 hours
CombinacionDe200 ==
    \/ PuestoLegajo = <<"t","e","l","e","f","o","n","i","s","t","a">> /\ SectorLegajo = <<"c","u","a","t">>
    \/ PuestoLegajo = <<"r","e","c","e","p","c","i","o","n","i","s","t","a"," ","d","e"," ","l","a","b","o","r","a","t","o","r","i","o">>
    \/ PuestoLegajo = <<"t","e","c","n","i","c","o"," ","e","n"," ","p","r","a","c","t","i","c","a","s"," ","c","a","r","d","i","o","l","o","g","i","c","a","s">>
    \/ PuestoLegajo = <<"o","p","e","r","a","r","i","o"," ","d","e"," ","l","o","g","i","s","t","i","c","a">>
    \/ PuestoLegajo = <<"r","e","c","e","p","c","i","o","n","i","s","t","a">> /\ SectorLegajo = <<"a","t","e","n","c","i","o","n"," ","a","l"," ","c","l","i","e","n","t","e"," ","l","a","b","o","r","a","t","o","r","i","o">>
    \/ PuestoLegajo = <<"a","s","i","s","t","e","n","t","e"," ","t","e","c","n","i","c","o">>

\* C8 as stated: each fixed-200h combination gets 200 monthly hours whenever
\* v239 is 35 or more, for every v239 from 35 to 168.
C8_Fijas200 ==
    (HorasEmitidas /\ CombinacionDe200 /\ V239 >= 35 * 100 /\ V239 <= 168 * 100)
        => V4 = 200 * 100

PuestoDeLaboratorio ==
    PuestoLegajo \in {<<"a","u","x","i","l","i","a","r"," ","t","e","c","n","i","c","o">>, <<"t","e","c","n","i","c","o"," ","d","e"," ","l","a","b","o","r","a","t","o","r","i","o">>,
                      <<"t","e","c","n","i","c","o"," ","e","x","t","r","a","c","c","i","o","n","i","s","t","a">>, <<"b","i","o","q","u","i","m","i","c","o">>}

\* C9: a laboratory-family position that is not a fixed-200h case gets 156
\* when 27 <= v239 <= 36 and 27 x 4.33 = 116.91 when v239 < 27, in any sector.
C9_LaboratorioPiso27 ==
    (HorasEmitidas /\ PuestoDeLaboratorio /\ ~CombinacionDe200)
        => /\ (V239 >= 27 * 100 /\ V239 <= 36 * 100) => V4 = 156 * 100
           /\ V239 < 27 * 100 => V4 = 27 * 433

\* a laboratory-family position outside the laboratory, below 27 weekly hours
C9_Testigo ==
    /\ HorasEmitidas
    /\ PuestoDeLaboratorio
    /\ SectorLegajo = <<"a","d","m","i","n","i","s","t","r","a","c","i","o","n">>
    /\ V239 < 27 * 100
    /\ V4 = 27 * 433

\* no earlier case of v4 applies: not a fixed-200h case, not in the band of the
\* laboratory family, not in the 156h band of the technicians, not a clinical
\* professional
SinCasoAnterior ==
    /\ ~(CombinacionDe200 /\ V239 >= 35 * 100)
    /\ ~(PuestoDeLaboratorio /\ V239 <= 36 * 100)
    /\ ~(/\ PuestoLegajo \in {<<"t","e","c","n","i","c","o">>, <<"t","e","c","n","i","c","o"," ","p","i","v","o","t">>}
         /\ SectorLegajo # <<"l","a","b","o","r","a","t","o","r","i","o">>
         /\ V239 >= 18 * 100 /\ V239 <= 36 * 100)
    /\ PuestoLegajo \notin {<<"m","e","d","i","c","o">>, <<"m","e","d","i","c","a">>, <<"m","e","d","i","c","o"," ","a">>, <<"o","d","o","n","t","o","l","o","g","o"," ","a">>,
                            <<"o","d","o","n","t","o","l","o","g","o"," ","a"," ","f","e","l","l","o","w">>}

SectorDeLaboratorio ==
    SectorLegajo \in {<<"l","a","b","o","r","a","t","o","r","i","o">>, <<"a","t","e","n","c","i","o","n"," ","a","l"," ","c","l","i","e","n","t","e"," ","l","a","b","o","r","a","t","o","r","i","o">>,
                      <<"l","a","b","o","r","a","t","o","r","i","o"," ","c","l","i","n","i","c","o">>, <<"a","n","a","l","i","s","i","s"," ","c","l","i","n","i","c","o","s">>}

SectorDeImagenes ==
    SectorLegajo \in {<<"m","a","m","o","g","r","a","f","i","a">>, <<"i","m","a","g","e","n","e","s"," ","d","m","f">>, <<"t","o","m","o","g","r","a","f","i","a"," ","c","o","m","p","u","t","a","d","a">>,
                      <<"d","e","n","s","i","t","o","m","e","t","r","i","a">>, <<"m","e","d","i","c","i","n","a"," ","n","u","c","l","e","a","r">>, <<"p","e","t"," ","c","t">>, <<"r","a","d","i","o","l","o","g","i","a">>,
                      <<"r","e","s","o","n","a","n","c","i","a"," ","m","a","g","n","e","t","i","c","a">>, <<"i","m","a","g","e","n","e","s">>}

\* 200, or the floor x 4.33 below the floor
HorasConPiso(piso) == IF V239 < piso * 100 THEN piso * 433 ELSE 200 * 100

\* C10 as stated: when no earlier case applies, the floor is chosen by sector
\* (36 general, 18 imaging, 27 laboratory); v4 is the floor x 4.33 below the
\* floor and 200 otherwise.
C10_PisoPorSector ==
    (HorasEmitidas /\ SinCasoAnterior)
        => V4 = HorasConPiso(IF SectorDeLaboratorio THEN 27
                             ELSE IF SectorDeImagenes THEN 18 ELSE 36)

\* C10, amended: when no earlier case applies, the floor is 27 only for a
\* laboratory-family position in a laboratory sector, 18 only for an imaging
\* technician (tecnico, tecnico de reproceso, tecnico pivot) in an imaging
\* sector, and 36 for everyone else; v4 is the floor x 4.33 below the floor and
\* 200 otherwise.
C10_PisoPorSectorYPuesto ==
    (HorasEmitidas /\ SinCasoAnterior)
        => V4 = HorasConPiso(
                   IF SectorDeLaboratorio /\ PuestoDeLaboratorio THEN 27
                   ELSE IF SectorDeImagenes
                           /\ PuestoLegajo \in {<<"t","e","c","n","i","c","o">>, <<"t","e","c","n","i","c","o"," ","d","e"," ","r","e","p","r","o","c","e","s","o">>,
                                                <<"t","e","c","n","i","c","o"," ","p","i","v","o","t">>}
                   THEN 18 ELSE 36)

\* an imaging technician in an imaging sector below 18 weekly hours: 18 x 4.33
C10_Testigo ==
    /\ HorasEmitidas
    /\ SinCasoAnterior
    /\ SectorDeImagenes
    /\ PuestoLegajo = <<"t","e","c","n","i","c","o"," ","d","e"," ","r","e","p","r","o","c","e","s","o">>
    /\ V239 < 18 * 100
    /\ V4 = 18 * 433


(***************************************************************************)
(* Reduced schedule (1167)                                                 *)
(***************************************************************************)
DiasDeTrabajo == Range(ResumenLegajo.dias_trabajo)

CategoriaSueldoFijo ==
    LET c == legajo.contratacion.categoria
    IN  c.tipo = "str" /\ lower(c.txt) \in {<<"p","f","c">>, <<"f","c","_","p","f","c">>, <<"f","c"," ","p","f","c">>}

\* the floor of the sector/position table, in hours
PisoDeTabla ==
    IF SectorLegajo = <<"m","e","d","i","c","i","n","a"," ","n","u","c","l","e","a","r">> /\ PuestoLegajo = <<"a","s","i","s","t","e","n","t","e"," ","t","e","c","n","i","c","o">> THEN 36
    ELSE IF SectorDeImagenes THEN 18
    ELSE IF SectorDeLaboratorio THEN 27
    ELSE 36

\* the floor for h hundredths of weekly hours: 45 for 18 hours on a week that
\* includes Monday, Tuesday and Wednesday, else the floor of the table
PisoDeJornada(h) ==
    IF h = 18 * 100 /\ {0, 1, 2} \subseteq DiasDeTrabajo THEN 45 ELSE PisoDeTabla

\* v is 100 x h / piso rounded to 4 decimals, for h hundredths of hours
EsPorcentajeDe(v, h, piso) ==
    /\ v.tipo = "num"
    /\ v.dec = 4
    /\ 2 * Distancia(v.num * piso, h * 10000) <= piso

\* code 1167 is emitted once, with 100 x h / piso, when aplica holds, and is
\* not emitted otherwise
JornadaReducida(aplica, h, piso) ==
    IF aplica
    THEN \E v \in Valores(1167) : Valores(1167) = {v} /\ EsPorcentajeDe(v, h, piso)
    ELSE Valores(1167) = {}

\* C11 as stated: code 1167 is emitted if and only if the record is not a
\* guard, is not in the fixed-salary category, is not a special position at
\* exactly 35 weekly hours, and its v239 is strictly below the floor; when
\* emitted its value is 100 x v239 / floor.
C11_JornadaReducidaSegunV239 ==
    (Calculado /\ 239 \in Codigos)
        => JornadaReducida(/\ ~GuardiaSegunCondiciones
                           /\ ~CategoriaSueldoFijo
                           /\ ~(es_puesto_especial(PuestoLegajo) /\ V239 = 35 * 100)
                           /\ V239 < PisoDeJornada(V239) * 100,
                           V239, PisoDeJornada(V239))

\* C11, amended: code 1167 is emitted if and only if the record is not a
\* guard, is not in the fixed-salary category, has a position and a sector,
\* is neither a special position nor an asistente tecnico at exactly 35 weekly
\* hours, and the weekly hours stored in its summary (total_horas_semanales,
\* which v239 replaces by 0 above 168) are strictly below the floor; when
\* emitted its value is 100 x those hours / floor.
C11_JornadaReducidaSegunResumen ==
    (Calculado /\ 239 \in Codigos)
        => JornadaReducida(/\ ~GuardiaSegunCondiciones
                           /\ ~CategoriaSueldoFijo
                           /\ PuestoLegajo # << >>
                           /\ SectorLegajo # << >>
                           /\ ~(/\ TotalSemanal = 35 * 100
                                /\ \/ es_puesto_especial(PuestoLegajo)
                                   \/ PuestoLegajo = <<"a","s","i","s","t","e","n","t","e"," ","t","e","c","n","i","c","o">>)
                           /\ TotalSemanal < PisoDeJornada(TotalSemanal) * 100,
                           TotalSemanal, PisoDeJornada(TotalSemanal))

\* an asistente tecnico of nuclear medicine at 35.5 weekly hours: 98.6111
C11_Testigo ==
    /\ Calculado
    /\ PuestoLegajo = <<"a","s","i","s","t","e","n","t","e"," ","t","e","c","n","i","c","o">>
    /\ SectorLegajo = <<"m","e","d","i","c","i","n","a"," ","n","u","c","l","e","a","r">>
    /\ TotalSemanal = 3550
    /\ Emitida(1167, Num(986111, 4))

\* C12 as stated: the floor of 45 is used exactly when the weekly hours are 18
\* and the worked-day set is {Mon,Tue,Wed}; 18 weekly hours on any other day
\* set get the floor of the sector/position table.
C12_Piso45SoloLunMarMie ==
    (/\ Calculado
     /\ 239 \in Codigos
     /\ TotalSemanal = 18 * 100
     /\ ~GuardiaSegunCondiciones
     /\ ~CategoriaSueldoFijo
     /\ PuestoLegajo # << >>
     /\ SectorLegajo # << >>)
        => IF DiasDeTrabajo = {0, 1, 2}
           THEN JornadaReducida(TRUE, 18 * 100, 45)
           ELSE JornadaReducida(18 < PisoDeTabla, 18 * 100, PisoDeTabla)

(***************************************************************************)
(* Art. 19 percentage (1599)                                               *)
(***************************************************************************)
PuestoArt19 ==
    PuestoLegajo \in {<<"t","e","c","n","i","c","o"," ","d","e"," ","l","a","b","o","r","a","t","o","r","i","o">>, <<"e","x","t","r","a","c","c","i","o","n","i","s","t","a">>, <<"b","i","o","q","u","i","m","i","c","o">>,
                      <<"a","u","x","i","l","i","a","r"," ","t","e","c","n","i","c","o">>}

CompuertaArt19 == CategoriaEnAlcance /\ PuestoArt19 /\ SectorLegajo = <<"l","a","b","o","r","a","t","o","r","i","o">>

\* v is PORCENTAJE_MAX_ART19 x h / 48 rounded to 4 decimals, for h hundredths of hours
EsPorcentajeArt19(v, h) ==
    /\ v.tipo = "num"
    /\ v.dec = 4
    /\ Distancia(48 * v.num, PORCENTAJE_MAX_ART19 * h * 100) <= 24

V1242 == (CHOOSE v \in Valores(1242) : TRUE).num

PuestoProfesional ==
    PuestoLegajo \in {<<"m","e","d","i","c","o">>, <<"m","e","d","i","c","a">>, <<"m","e","d","i","c","o"," ","a">>, <<"o","d","o","n","t","o","l","o","g","o"," ","a">>,
                      <<"o","d","o","n","t","o","l","o","g","o"," ","a"," ","f","e","l","l","o","w">>}

\* C14: code 1131 is 10 when the worked-day set is exactly {Sat,Sun,Holiday},
\* 10 when it is exactly {Mon,Tue,Wed}, otherwise the v1242 value when
\* v1242 < 22 or the position is clinical-professional or the holiday is
\* worked, and otherwise it is not emitted.
C14_DiasEspeciales ==
    (Calculado /\ 1242 \in Codigos)
        => Valores(1131) =
              IF DiasDeTrabajo = {5, 6, 7} \/ DiasDeTrabajo = {0, 1, 2} THEN {Num(10, 0)}
              ELSE IF V1242 < 22 \/ PuestoProfesional \/ 7 \in DiasDeTrabajo
              THEN {Num(V1242, 0)}
              ELSE {}

\* a physician on Monday to Saturday: 26 monthly days, no holiday worked
C14_Testigo ==
    /\ Calculado
    /\ PuestoProfesional
    /\ DiasDeTrabajo = {0, 1, 2, 3, 4, 5}
    /\ V1242 >= 22
    /\ Emitida(1131, Num(V1242, 0))

(***************************************************************************)
(* Resonance table (1151)                                                  *)
(***************************************************************************)
\* weekly hours in hundredths -> code
TablaDeHoras ==
    [h \in {1200, 2400, 3000, 3250, 3400, 3500, 3600, 4000, 4500} |->
        CASE h = 1200 -> 1 [] h = 2400 -> 2 [] h = 3000 -> 3 [] h = 3400 -> 4
          [] h = 3500 -> 5 [] h = 3600 -> 6 [] h = 4000 -> 7 [] h = 4500 -> 8
          [] h = 3250 -> 9]

PuestoTecnico == PuestoLegajo \in {<<"t","e","c","n","i","c","o">>, <<"t","e","c","n","i","c","o"," ","d","e"," ","r","e","p","r","o","c","e","s","o">>, <<"t","e","c","n","i","c","o"," ","p","i","v","o","t">>}

CompuertaResonancia == PuestoTecnico /\ SectorLegajo = <<"r","e","s","o","n","a","n","c","i","a"," ","m","a","g","n","e","t","i","c","a">>

\* C15: for a technician-family position in the magnetic-resonance sector
\* code 1151 is always emitted, with the code of the hours table when v239 is
\* a key of the table (36 gives 6) and with a message string, never a number,
\* when it is not; for any other position or sector it is not emitted.
C15_AdicionalResonancia ==
    (Calculado /\ 239 \in Codigos)
        => IF CompuertaResonancia
           THEN \E v \in Valores(1151) :
                   /\ Valores(1151) = {v}
                   /\ IF V239 \in DOMAIN TablaDeHoras
                      THEN v = Num(TablaDeHoras[V239], 0)
                      ELSE v.tipo = "str"
                   /\ V239 = 36 * 100 => v = Num(6, 0)
           ELSE Valores(1151) = {}

\* a technician of magnetic resonance at 37 weekly hours: the message
C15_Testigo ==
    /\ Calculado
    /\ CompuertaResonancia
    /\ V239 = 37 * 100
    /\ \E v \in Valores(1151) : v.tipo = "str"

(***************************************************************************)
(* Night hours of the summary                                              *)
(***************************************************************************)
\* the interval of the block, which runs into the next day when it ends
\* before it starts, meets the window from 22:00 to 06:00
IntersecaVentanaNocturna(b) ==
    LET ini == b.hora_inicio[1] * 60 + b.hora_inicio[2]
        fin == b.hora_fin[1] * 60 + b.hora_fin[2]
    IN  \/ fin < ini
        \/ ini < fin /\ (ini < 6 * 60 \/ fin > 22 * 60)

\* C17: if no block of the list has an interval that intersects the window
\* [22:00, 06:00), calcular_resumen_horario returns total_horas_nocturnas = 0
\* and tiene_nocturnidad = false.
C17_SinNocturnidad ==
    (Resumido /\ \A i \in DOMAIN BloquesLegajo : ~IntersecaVentanaNocturna(BloquesLegajo[i]))
        => /\ ResumenLegajo.total_horas_nocturnas = Num(0, 2)
           /\ ResumenLegajo.tiene_nocturnidad = FALSE

\* Monday to Friday 12:00 to 20:00 and one Saturday a month 07:00 to 19:00
C17_Testigo ==
    /\ Resumido
    /\ BloquesLegajo = <<Bloques.LV_12_20, Bloques.Sab_Mensual>>
    /\ ResumenLegajo.total_horas_nocturnas = Num(0, 2)
    /\ ~ResumenLegajo.tiene_nocturnidad

(***************************************************************************)
(* Times of the parsed blocks                                              *)
(***************************************************************************)
Parseado == pc = "bloques"

\* t is HH:MM with 00 <= HH <= 23 and 00 <= MM <= 59
EsHoraDelDia(t) ==
    /\ Len(t) = 5
    /\ t[3] = ":"
    /\ \A i \in {1, 2, 4, 5} : t[i] \in Digitos
    /\ valor_digitos(SubSeq(t, 1, 2)) <= 23
    /\ valor_digitos(SubSeq(t, 4, 5)) <= 59

\* C16 as stated: every block returned by parse_schedule_string has
\* hora_inicio and hora_fin of the form HH:MM with 00 <= HH <= 23 and
\* 00 <= MM <= 59; a segment whose start or end is not a time of day never
\* appears in the block list.
C16_HorasDelDia ==
    Parseado => \A i \in DOMAIN BloquesLegajo :
                    /\ EsHoraDelDia(BloquesLegajo[i].hora_inicio)
                    /\ EsHoraDelDia(BloquesLegajo[i].hora_fin)

(***************************************************************************)
(* The text normalizer                                                     *)
(***************************************************************************)
\* C18 as stated: the text normalizer (clean_and_standardize followed by
\* apply_equivalences with the equivalence table) is idempotent: applied to
\* its own output it returns that same string, character for character.
C18_NormalizadorIdempotente ==
    pc = "normalizado" => normalizar_horario(legajo.horario.texto) = legajo.horario.texto

(***************************************************************************)
(* The record loop of procesar_archivo_json                                *)
(***************************************************************************)
\* the record the next iteration visits passes validar_estructura_legajo and
\* makes validar_horario raise inside calcular_variables
FallaUnaRegla(r) ==
    /\ validar_estructura_legajo(r) = "True"
    /\ lanza_validar_horario(r)

\* C19: when a rule raises while calcular_variables evaluates a record,
\* the iteration of that record adds one to legajos_con_error.
C19_FalloDeReglaContado ==
    [][(ProcesarLegajo /\ FallaUnaRegla(Head(lote)))
          => stats'.legajos_con_error = stats.legajos_con_error + 1]_vars

\* the record lacks a required field or sub-field; a section that holds null
\* has none of its sub-fields
FaltaUnCampo(r) ==
    \/ r.ausentes \cap ClavesRequeridas # {}
    \/ r.secciones_nulas # {}

\* the number of errors counted by type
ErroresPorTipo(s) == s.errores_por_tipo.estructura_invalida + s.errores_por_tipo.TypeError

\* C20: the iteration of a record that lacks a required field or sub-field
\* ends before the call of calcular_variables, adds one to legajos_con_error
\* and one to the errors by type, counts the record as not processed and
\* adds no tuple to the result list.
C20_EstructuraInvalidaOmitida ==
    [][(ProcesarLegajo /\ FaltaUnCampo(Head(lote)))
          => /\ pc' \in {"estructura_invalida", "excepcion"}
             /\ variables' = variables
             /\ stats'.legajos_con_error = stats.legajos_con_error + 1
             /\ ErroresPorTipo(stats') = ErroresPorTipo(stats) + 1
             /\ stats'.legajos_procesados = stats.legajos_procesados
             /\ stats'.variables_calculadas = stats.variables_calculadas
             /\ resultados' = resultados]_vars

\* a record without a required key was skipped after a record was processed
\* and before the last record of the batch
C20_Testigo ==
    /\ pc = "estructura_invalida"
    /\ legajo.ausentes \cap ClavesRequeridas # {}
    /\ stats.legajos_con_error = 1
    /\ stats.legajos_procesados = 1
    /\ resultados # << >>
    /\ lote # << >>

(***************************************************************************)
(* The pipeline from the row to the result list                            *)
(***************************************************************************)
Terminado == pc \in {"completado", "sin_resultados"}

\* the row passes validar_fila_detallada and its schedule parses to no block
SinBloques(row) ==
    /\ validar_fila_detallada(row) = << >>
    /\ parse_schedule_string(row.Horario.matches) = << >>

\* the row passes validar_fila_detallada and its schedule parses to blocks
ConBloques(row) ==
    /\ validar_fila_detallada(row) = << >>
    /\ parse_schedule_string(row.Horario.matches) # << >>

\* the positions of the result list that belong to the employee of the row
TuplasDeFila(row) ==
    {k \in DOMAIN resultados : resultados[k][1] = Num(int_de_numero(row.Legajo), 0)}

\* C21: when the pipeline has finished, every row whose schedule text parsed
\* to zero blocks has exactly one tuple in the final result list, the
\* informational code 9000, and no other variable; and every other valid row
\* of the workbook was still processed and has its tuples in the list.
C21_FilaSinBloquesInformada ==
    Terminado =>
        \A i \in DOMAIN df :
            /\ SinBloques(df[i]) =>
                   /\ Cardinality(TuplasDeFila(df[i])) = 1
                   /\ \A k \in TuplasDeFila(df[i]) : resultados[k][2] = 9000
            /\ ConBloques(df[i]) => TuplasDeFila(df[i]) # {}

(***************************************************************************)
(* Independence of the records of a batch                                  *)
(***************************************************************************)
\* the (code, value) pairs of a record, computed from the record alone
ParesDelRegistro(r) ==
    IF validar_estructura_legajo(r) # "True" \/ lanza_validar_horario(r) THEN << >>
    ELSE calcular_variables(r.legajo)

\* the tuples an iteration adds to the result list
NuevasTuplas == SubSeq(resultados', Len(resultados) + 1, Len(resultados'))

\* how many times t stands in the list
Veces(lista, t) == Cardinality({k \in DOMAIN lista : lista[k] = t})

HorasLegibles(b) == strptime_HM(b.hora_inicio) # << >> /\ strptime_HM(b.hora_fin) # << >>

\* the end of the block is not after its start
FinNoPosterior(inicio, fin) == minutos(fin) <= minutos(inicio)

\* (24 - start) + end when the end is not after the start, else end - start,
\* in minutes
DuracionSegunHoras(inicio, fin) ==
    IF FinNoPosterior(inicio, fin)
    THEN (24 * 60 - minutos(inicio)) + minutos(fin)
    ELSE minutos(fin) - minutos(inicio)

\* the per-day entries of the summary stored in the record
EntradasDelLegajo ==
    UNION {Range(legajo.horario.resumen.bloques_por_dia[d]) :
              d \in DOMAIN legajo.horario.resumen.bloques_por_dia}

\* C23: every block returned by parse_schedule_string whose times are times
\* of day has cruza_dia true if and only if its end is not after its start,
\* and every entry of the summary has the duration (24 - start) + end when
\* the end is not after the start (so 24 hours when they are equal) and
\* end - start otherwise.
C23_CruzaDiaSiFinNoPosterior ==
    Parseado =>
        /\ \A i \in DOMAIN BloquesLegajo :
               HorasLegibles(BloquesLegajo[i]) =>
                   (BloquesLegajo[i].cruza_dia <=>
                        FinNoPosterior(strptime_HM(BloquesLegajo[i].hora_inicio),
                                       strptime_HM(BloquesLegajo[i].hora_fin)))
        /\ \A e \in EntradasDelLegajo :
               e.duracion_total = redondear(DuracionSegunHoras(e.inicio, e.fin) * 100, 60)

(***************************************************************************)
(* Night hours of a block                                                  *)
(***************************************************************************)
\* the length in minutes of the part of [a, b] inside [c, d]
Solape(a, b, c, d) == IF Max2(a, c) < Min2(b, d) THEN Min2(b, d) - Max2(a, c) ELSE 0

\* the minutes of the block's interval, which ends on the next day when the
\* block crosses midnight, that fall between 22:00 and 06:00 of any night
MinutosEnVentanaNocturna(b) ==
    LET ini == minutos(b.hora_inicio)
        fin == minutos(b.hora_fin) + (IF cruza_dia_de(b) THEN 24 * 60 ELSE 0)
    IN  Solape(ini, fin, 0, 6 * 60)
        + Solape(ini, fin, 22 * 60, 30 * 60)
        + Solape(ini, fin, 46 * 60, 54 * 60)

\* C24: for every block, the night hours of its entries in the summary are
\* the length of the intersection of the block's interval with the window
\* from 22:00 to 06:00, so Monday to Friday 04:00 to 08:00 has 2 night hours
\* a day; and Monday to Friday 22:00 to 06:00 gives total_horas_nocturnas = 40.
C24_NocturnasSonInterseccion ==
    Resumido =>
        /\ \A i \in DOMAIN BloquesLegajo :
               \A d \in Range(BloquesLegajo[i].dias_semana) :
                   \E k \in DOMAIN EntradasDe(d) :
                       /\ EntradasDe(d)[k].inicio = BloquesLegajo[i].hora_inicio
                       /\ EntradasDe(d)[k].fin = BloquesLegajo[i].hora_fin
                       /\ EntradasDe(d)[k].horas_nocturnas =
                              redondear(MinutosEnVentanaNocturna(BloquesLegajo[i]) * 100, 60)
        /\ BloquesLegajo = <<Bloques.LV_Noche>> =>
               ResumenLegajo.total_horas_nocturnas = Num(40 * 100, 2)

(***************************************************************************)
(* Periodicity of the parsed blocks                                        *)
(***************************************************************************)
\* the matches that give a block, in the order of the blocks
CoincidenciasConDias ==
    SelectSeq(legajo.horario.matches,
              LAMBDA m : /\ ~get_day_indices(m.day_words).error
                         /\ get_day_indices(m.day_words).dias # << >>)

TienePalabra(day_words, palabras) == \E i \in DOMAIN day_words : day_words[i] \in palabras

\* proportional first, then fortnightly, then monthly, then weekly
PeriodicidadSegunPrecedencia(day_words) ==
    IF get_day_indices(day_words).proporcional # 0
    THEN [tipo |-> <<"p","r","o","p","o","r","c","i","o","n","a","l">>, factor4 |-> get_day_indices(day_words).proporcional]
    ELSE IF TienePalabra(day_words, {<<"p","o","r">>, <<"m","e","d","i","o">>})
    THEN [tipo |-> <<"q","u","i","n","c","e","n","a","l">>, factor4 |-> 2]
    ELSE IF TienePalabra(day_words, {<<"m","e","n","s","u","a","l">>, <<"m","e","s">>})
    THEN [tipo |-> <<"m","e","n","s","u","a","l">>, factor4 |-> 1]
    ELSE [tipo |-> <<"s","e","m","a","n","a","l">>, factor4 |-> 4]

\* C25: the periodicity of every block returned by parse_schedule_string is
\* proportional with factor N/4 when the day phrase has a Saturday count,
\* otherwise biweekly (0.5) when it has a fortnightly word, otherwise monthly
\* (0.25) when it has a monthly word, otherwise weekly (1.0); so a phrase with
\* both a fortnightly and a monthly word is biweekly, and the factor is one
\* of 1/4, 2/4, 3/4 and 4/4.
C25_PrecedenciaDePeriodicidad ==
    Parseado =>
        \A i \in DOMAIN BloquesLegajo :
            /\ BloquesLegajo[i].periodicidad
                   = PeriodicidadSegunPrecedencia(CoincidenciasConDias[i].day_words)
            /\ BloquesLegajo[i].periodicidad.factor4 \in 1..4

(***************************************************************************)
(* Art. 19 working day (1416) and percentage (1599)                        *)
(***************************************************************************)
\* C26: whenever code 1599 is in the list calcular_variables returns, code
\* 1416 is in it with value 1: the conditions of calcular_porcentaje_art19
\* on category, position, sector and hours imply those of
\* calcular_jornada_art19.
C26_PorcentajeImplicaJornadaArt19 ==
    (Calculado /\ 1599 \in Codigos) => Valores(1416) = {Num(1, 0)}

\* a record whose category is written in capitals ('DC_Laboratorio'), which
\* calcular_porcentaje_art19 lowers and calcular_jornada_art19 normalizes
C26_Testigo ==
    /\ Calculado
    /\ 1599 \in Codigos
    /\ Emitida(1416, Num(1, 0))
    /\ legajo.contratacion.categoria = Str(<<"D","C","_","L","a","b","o","r","a","t","o","r","i","o">>)

(***************************************************************************)
(* Base salary (1) and missing salary (12000)                              *)
(***************************************************************************)
\* the category as procesar_variables_informativas reads it for code 12000
CategoriaFcPfc ==
    LET c == legajo.contratacion.categoria
    IN  c.tipo = "str" /\ lower(strip(c.txt)) = <<"f","c","_","p","f","c">>

\* sueldo_base is a number, null or the empty string
SueldoBaseDeclarado ==
    LET s == legajo.remuneracion.sueldo_base
    IN  s.tipo = "num" \/ es_None(s) \/ s = Str(<< >>)

UnoSolo(a, b) == (a \in Codigos) # (b \in Codigos)

\* C27 as stated: codes 1 and 12000 are never both in the list of a record,
\* and a record of the fixed-salary category without 'full guardia' in its
\* extras has exactly one of them, whether sueldo_base is a number, null or
\* the empty string.
C27_SueldoOAviso ==
    Calculado =>
        /\ ~(1 \in Codigos /\ 12000 \in Codigos)
        /\ (CategoriaFcPfc /\ ~TieneFullGuardia /\ SueldoBaseDeclarado) => UnoSolo(1, 12000)

\* C27 amended: codes 1 and 12000 are never both in the list of a record,
\* and a record with a valid schedule whose category is exactly 'fc_pfc',
\* without 'full guardia' in its extras, has exactly one of them, whether
\* sueldo_base is a number, null or the empty string.
C27_SueldoOAvisoCategoriaExacta ==
    Calculado =>
        /\ ~(1 \in Codigos /\ 12000 \in Codigos)
        /\ (/\ 239 \in Codigos
            /\ legajo.contratacion.categoria = Str(<<"f","c","_","p","f","c">>)
            /\ ~TieneFullGuardia
            /\ SueldoBaseDeclarado) => UnoSolo(1, 12000)

\* the empty string as salary: float('') fails, so code 12000 alone
C27_Testigo ==
    /\ Calculado
    /\ legajo.contratacion.categoria = Str(<<"f","c","_","p","f","c">>)
    /\ legajo.remuneracion.sueldo_base = Str(<< >>)
    /\ ~TieneFullGuardia
    /\ 12000 \in Codigos
    /\ 1 \notin Codigos

(***************************************************************************)
(* The codes of the list returned by calcular_variables                    *)
(***************************************************************************)
MENSAJE_VOLUNTARIO == <<"R","e","v","i","s","a","r"," ","A","d","i","c"," ","V","o","l","u","n","t","a","r","i","o"," ","E","m","p","r","e","s","a">>

\* C28: in the list calcular_variables returns for a record, every code is a
\* key of CATALOGO_VARIABLES and no code appears twice; code 9000 carries
\* the 'schedule not interpretable' message or the voluntary-additional
\* message, never both, and codes 1157 and 1498 appear at most once.
C28_CodigosDelCatalogoSinRepetir ==
    Calculado =>
        /\ Codigos \subseteq DOMAIN CATALOGO_VARIABLES
        /\ \A i, j \in DOMAIN variables : variables[i][1] = variables[j][1] => i = j
        /\ Valores(9000) \subseteq {Str(MENSAJE_HORARIO), Str(MENSAJE_VOLUNTARIO)}
        /\ Cardinality(Valores(9000)) <= 1

\* a night-only week of a record with the voluntary additional: code 1498
\* once, and code 9000 with the voluntary-additional message
C28_Testigo ==
    /\ Calculado
    /\ Emitida(9000, Str(MENSAJE_VOLUNTARIO))
    /\ 1498 \in Codigos
    /\ 1157 \notin Codigos

(***************************************************************************)
(* The counters of procesar_archivo_json                                   *)
(***************************************************************************)
\* C29: after every iteration of the record loop of procesar_archivo_json,
\* legajos_procesados + legajos_con_error is at most the number of records
\* visited, which is at most total_legajos; variables_calculadas is the
\* number of tuples in the result list; and the record of the iteration is
\* counted in at most one of the two counters.
C29_ContadoresDelLote ==
    [][Len(lote') = Len(lote) - 1 =>
          LET visitados == stats'.total_legajos - Len(lote')
              procesado == stats'.legajos_procesados - stats.legajos_procesados
              con_error == stats'.legajos_con_error - stats.legajos_con_error
          IN  /\ stats'.legajos_procesados + stats'.legajos_con_error <= visitados
              /\ visitados <= stats'.total_legajos
              /\ stats'.total_legajos = stats.total_legajos
              /\ stats'.variables_calculadas = Len(resultados')
              /\ procesado \in {0, 1}
              /\ con_error \in {0, 1}
              /\ procesado + con_error <= 1]_vars

\* a record that gave no variables after a record that gave some: it is in
\* neither counter
C29_Testigo ==
    /\ pc = "sin_variables"
    /\ stats.legajos_procesados >= 1
    /\ stats.variables_calculadas = Len(resultados)
    /\ resultados # << >>
    /\ stats.legajos_procesados + stats.legajos_con_error
           < stats.total_legajos - Len(lote)

(***************************************************************************)
(* Bounds of the summary                                                   *)
(***************************************************************************)
\* every entry has 0 <= horas_nocturnas <= duracion_total <= 24
EntradasAcotadas ==
    \A e \in EntradasDelLegajo :
        /\ 0 <= e.horas_nocturnas
        /\ e.horas_nocturnas <= e.duracion_total
        /\ e.duracion_total <= 24 * 100

\* C30: for every list of blocks with times of day and a factor in (0, 1],
\* every per-day entry of calcular_resumen_horario has
\* 0 <= horas_nocturnas <= duracion_total <= 24, and the summary has
\* 0 <= total_horas_nocturnas <= total_horas_semanales.
C30_NocturnasDentroDelTotal ==
    (Resumido /\ \A i \in DOMAIN BloquesLegajo : BloquesLegajo[i].periodicidad.factor4 \in 1..4)
        => /\ EntradasAcotadas
           /\ 0 <= ResumenLegajo.total_horas_nocturnas.num
           /\ ResumenLegajo.total_horas_nocturnas.num <= ResumenLegajo.total_horas_semanales.num
====
